---- MODULE Spec2Model ----
(***************************************************************************)
(* The multi-target delivery manager of the relay agent                    *)
(* (src/tools/relay-agent/backend_manager.py): BackendManager, its         *)
(* BackendTarget objects, each target's worker thread(s), the threads that *)
(* call the manager, and the Socket.IO client of each target seen at its   *)
(* boundary (connect / emit results and the callbacks it fires).           *)
(*                                                                         *)
(* Time is a global millisecond clock `now` (time.time() * 1000).          *)
(* A frame is identified by the value of the manager's frame_counter at    *)
(* the send that produced it; the event tag and the payload's other keys   *)
(* never influence control flow and are left out.                          *)
(***************************************************************************)
EXTENDS Integers, Sequences, FiniteSets, TLC

VARIABLES
    now,                 \* time.time() * 1000
    kill_switch_active,  \* BackendManager.kill_switch_active
    mode,                \* BackendManager.mode
    primary_index,       \* BackendManager.primary_index
    sample_rate,         \* BackendManager.sample_rate, in percent
    session_id,          \* BackendManager.session_id
    frame_counter,       \* BackendManager.frame_counter
    targets,             \* BackendManager.targets: index -> BackendTarget fields
    sio,                 \* per target: the socketio.Client's own state
    workers,             \* per target, per thread slot: position and locals of _worker_loop
    caller,              \* per calling thread: position and locals in send()
    send_ret,            \* value returned by the last completed send(), if any
    is_connected_ret,    \* value returned by the last is_connected(), if any
    start_called,        \* history: the manager's start() has been called
    hist,                \* per target: history (what was submitted, emitted, ...)
    total_ack_latencies, \* BackendManager.total_ack_latencies
    stats_ret,           \* value returned by the last get_target_stats(), if any
    parity_ret,          \* value returned by the last get_parity_snapshot(), if any
    ack_pc,              \* per target: position of the client's thread in the 'relay:ack' handler
    ack_arrivals,        \* history: the latency samples in the order the handlers recorded them
    error_call           \* the thread in get_stats(): its position in the last_error expression

vars == <<now, kill_switch_active, mode, primary_index, sample_rate, session_id,
          frame_counter, targets, sio, workers, caller, send_ret,
          is_connected_ret, start_called, hist, total_ack_latencies, stats_ret,
          parity_ret, ack_pc, ack_arrivals, error_call>>

config_vars == <<kill_switch_active, mode, primary_index, sample_rate>>

\* what only the ack handler and the read-side calls change
read_vars == <<total_ack_latencies, stats_ret, parity_ret, ack_pc, ack_arrivals,
               error_call>>

-----------------------------------------------------------------------------
(* Bounds of the model *)

\* len(self.targets) is at most this
MaxTargets == 2
\* BackendTarget.MAX_QUEUE_SIZE (500 in the source), scaled to a checkable size
MAX_QUEUE_SIZE == 2
\* send() calls that pass the kill-switch check
MaxFrames == 4
\* the clock stops here
MaxTime == 3000
\* consecutive connection failures counted
MaxBackoffCount == 2
\* worker threads of one target created and not yet exited
MaxWorkers == 2
\* the same for SpecRestart and SpecConn
MaxFramesRestart == 3
MaxBackoffRestart == 1
MaxBackoffConn == 1
MaxWorkersConn == 1
\* threads that call send()
MaxCallers == 2
\* the value of frame_counter up to which SpecSend starts a send()
MaxFramesSend == 4
\* the samples ack_latencies keeps (100 in the source), scaled
AckWindow == 2
\* the samples total_ack_latencies keeps (1000 in the source), scaled
TotalAckWindow == 3
\* SpecAck: sends started, clock, acknowledgements delivered
MaxFramesAck == 2
MaxTimeAck == 1000
MaxAcks == 2
\* SpecStats: sends started, connection failures, acknowledgements per target
MaxFramesStats == 1
MaxBackoffStats == 0
MaxAcksStats == 1
\* SpecStop: sends started, connection failures
MaxFramesStop == 2
MaxBackoffStop == 1
\* SpecStart: connection failures
MaxBackoffStart == 1
\* SpecSession: connection failures
MaxBackoffSession == 1
\* SpecAckPar: sampled frames sent to every target and awaiting their
\* acknowledgement, clock
MaxFramesAckPar == 3
MaxTimeAckPar == 1000
\* SpecPending: sends started, clock, acknowledgements delivered, connection
\* failures
MaxFramesPending == 3
MaxTimePending == 3000
MaxAcksPending == 2
MaxBackoffPending == 1
\* SpecPayload: the value of frame_counter up to which a send() is started
MaxFramesPayload == 4
\* SpecError: connection failures
MaxBackoffError == 2
\* SpecWorkers: sends started, acknowledgements delivered, connection failures
MaxFramesWorkers == 2
MaxAcksWorkers == 2
MaxBackoffWorkers == 0
\* SpecLive: clock, connection failures
MaxTimeLive == 34000
MaxBackoffLive == 5
\* SpecDrain: frames sent, clock, connection failures
MaxFramesDrain == 4
MaxTimeDrain == 3000
MaxBackoffDrain == 1

(* Program constants *)
MAX_BACKOFF_MS == 30000
BackoffBaseMs == 1000
StaleMs == 2000

TickSteps == {1000}
None == "None"
\* a call that has not returned yet, and a call that returned b
NoRet == <<>>
Ret(b) == <<b>>
SessionIds == {"s1"}
\* the ids SpecSession passes to set_session_id, the empty string included
SessionIdsAll == {"", "s1", "s2"}
ErrorTexts == {"timeout"}
\* the error texts SpecError stores: none of them is longer than the 100
\* characters that str(e)[:100] keeps
ErrorTextsAll == {"", "timeout", "invalid token", "Bad Token", "monkey"}
\* the error texts that contain token, key, secret, password or auth
SensitiveTexts == {"invalid token"}
WIdx == 1 .. MaxWorkers
CIdx == 1 .. MaxCallers

Min2(a, b) == IF a <= b THEN a ELSE b

-----------------------------------------------------------------------------
(* Construction *)

\* a payload mapping (the `data` dict of send()): a function from its keys to
\* their values; NoData stands for no mapping at all
NoData == [none |-> TRUE]
\* the mapping every send() passes where the payload is not at stake
BasePayload == [speed |-> 1]
\* the mappings SpecPayload passes to send(): one key, two keys
Payloads == {[speed |-> 1], [speed |-> 2, gear |-> 3]}

\* a frame: n identifies the send() that made it, ack is ackRequested, fid the
\* frameId (<<>> when absent), data the mapping handed to enqueue
NoFrame == [n |-> 0, ack |-> FALSE, fid |-> <<>>, data |-> NoData]
NoEntry == [f |-> NoFrame, queued_at |-> 0]

\* the frameId f"f{self.frame_counter}-{int(time.time()*1000)}" of a frame
\* stamped when the counter is k at time t
frame_id(k, t) == <<k, t>>

\* BackendTarget.__init__
NewTarget(en) ==
    [enabled |-> en, state |-> "disconnected", session_id |-> None,
     backoff_until_ms |-> 0, backoff_count |-> 0,
     sent |-> 0, failed |-> 0, acked |-> 0, dropped |-> 0,
     last_send_ok_ms |-> 0, last_ack_latency_ms |-> 0, last_error |-> None,
     queue |-> <<>>, running |-> FALSE,
     pending_acks |-> {}, ack_latencies |-> <<>>]

NewWorker == [pc |-> "dead", item |-> NoEntry, read |-> 0]
NewSio == [connected |-> FALSE, reconnecting |-> FALSE]
\* sent_ok: the frameIds of the sampled frames sio.emit took; matched: the
\* frameIds whose acknowledgement found its entry in pending_acks
NewHist == [submitted |-> <<>>, results |-> <<>>, emitted |-> <<>>,
            attempted |-> FALSE, refused |-> FALSE, dequeued |-> FALSE,
            registered |-> None, acks |-> <<>>, sent_ok |-> {}, matched |-> {}]
\* a calling thread outside send(); tried and acc are history: the targets the
\* thread's last send() called enqueue on, and those whose queue took the frame;
\* arg is the mapping the thread passed to its last send(), as the thread sees
\* it now
\* no get_stats() in progress; ret is the last_error of the TargetStats the
\* last call returned, if any
NoErrorCall == [pc |-> "idle", t |-> 0, ret |-> NoRet]
IdleCaller == [pc |-> "idle", i |-> 0, frame |-> NoFrame, success |-> FALSE, read |-> 0,
               tried |-> <<>>, acc |-> {}, arg |-> NoData]

TIdx == DOMAIN targets
NumTargets == Cardinality(TIdx)

\* BackendManager.__init__ and _parse_backends, for a configuration
\* [n, enabled, kill, mode, primary, rate]
InitWith(cfgs) ==
    \E c \in cfgs :
        /\ now = 0
        /\ kill_switch_active = c.kill
        /\ mode = c.mode
        /\ primary_index = c.primary
        /\ sample_rate = c.rate
        /\ session_id = None
        /\ frame_counter = 0
        /\ targets = [t \in 0 .. c.n - 1 |-> NewTarget(c.enabled[t])]
        /\ sio = [t \in 0 .. c.n - 1 |-> NewSio]
        /\ workers = [t \in 0 .. c.n - 1 |-> [w \in WIdx |-> NewWorker]]
        /\ caller = [k \in CIdx |-> IdleCaller]
        /\ send_ret = NoRet
        /\ is_connected_ret = NoRet
        /\ start_called = FALSE
        /\ hist = [t \in 0 .. c.n - 1 |-> NewHist]
        /\ total_ack_latencies = <<>>
        /\ stats_ret = NoRet
        /\ parity_ret = NoRet
        /\ ack_pc = [t \in 0 .. c.n - 1 |-> "idle"]
        /\ ack_arrivals = <<>>
        /\ error_call = NoErrorCall

-----------------------------------------------------------------------------
(* BackendTarget: connection handlers and backoff *)

BackoffDelay(count) == Min2(BackoffBaseMs * (2 ^ count), MAX_BACKOFF_MS)

apply_backoff(tg, t) ==
    [tg EXCEPT !.backoff_count = tg.backoff_count + 1,
               !.backoff_until_ms = t + BackoffDelay(tg.backoff_count + 1)]

on_connect(tg) == [tg EXCEPT !.state = "connected", !.backoff_count = 0]

on_disconnect(tg) == [tg EXCEPT !.state = "disconnected"]

on_connect_error(tg, err, t) ==
    apply_backoff([tg EXCEPT !.state = "backoff", !.last_error = err], t)

connect_except(tg, err, t) ==
    apply_backoff([tg EXCEPT !.state = "backoff", !.last_error = err], t)

\* `if self.session_id`: None and the empty string count as no session id
session_known(id) == id \notin {None, ""}

\* a connect handler that registers whatever the target holds
register_emit_always(h, tg) ==
    [h EXCEPT !.registered = tg.session_id]

\* the 'relay:register' emit of the connect handler: registered is the
\* sessionId carried by the registration of the latest connect, None when that
\* connect sent none
register_emit(h, tg) ==
    [h EXCEPT !.registered = IF session_known(tg.session_id)
                             THEN tg.session_id ELSE None]

-----------------------------------------------------------------------------
Tick(maxT) ==
    /\ \E d \in TickSteps : now + d <= maxT /\ now' = now + d
    /\ UNCHANGED <<start_called, config_vars, read_vars, session_id, frame_counter, targets,
                   sio, workers, caller, send_ret, is_connected_ret, hist>>

-----------------------------------------------------------------------------
(* BackendTarget._worker_loop, one thread (t, w) *)

\* a connect() without the backoff check
connect_blocked_never(tg, t) == FALSE

\* connect(): in BACKOFF before the expiry time it returns False at once
connect_blocked(tg, t) == tg.state = "backoff" /\ t < tg.backoff_until_ms

\* a staleness test that takes the age for seconds
is_stale_seconds(age_ms) == age_ms > StaleMs * 1000

\* the staleness test on a dequeued entry
is_stale(age_ms) == age_ms > StaleMs

\* a loop that never looks at the stop signal
loop_running_always(tg) == TRUE

\* `while self.running`
loop_running(tg) == tg.running

\* a worker that goes to the queue without looking at the connection state
connect_needed_never(tg) == FALSE

\* `if self.state != TargetState.CONNECTED`
connect_needed(tg) == tg.state # "connected"

\* `while self.running`, then `if self.state != CONNECTED: if not self.connect()`
\* up to the blocking sio.connect call
WorkerLoop(t, w) ==
    LET tg == targets[t] IN
    /\ workers[t][w].pc = "top"
    /\ IF ~loop_running(tg) THEN
            /\ workers' = [workers EXCEPT ![t][w].pc = "dead"]
            /\ UNCHANGED <<targets, hist>>
       ELSE IF ~connect_needed(tg) THEN
            /\ workers' = [workers EXCEPT ![t][w].pc = "get"]
            /\ UNCHANGED <<targets, hist>>
       ELSE IF connect_blocked(tg, now) THEN
            \* connect() returned False: time.sleep(0.5); continue
            /\ workers' = [workers EXCEPT ![t][w].pc = "sleep"]
            /\ hist' = [hist EXCEPT ![t].refused = TRUE]
            /\ UNCHANGED targets
       ELSE
            /\ targets' = [targets EXCEPT ![t].state = "connecting"]
            /\ workers' = [workers EXCEPT ![t][w].pc = "connecting"]
            /\ hist' = [hist EXCEPT ![t].attempted = TRUE]
    /\ UNCHANGED <<now, start_called, config_vars, read_vars, session_id, frame_counter, sio, caller,
                   send_ret, is_connected_ret>>

\* sio.connect(...) comes back. "ok": the client connected and fired the connect
\* handler, and connect() goes on to `return self.sio.connected`; "exc": it
\* raised; "err_exc": it fired connect_error and raised. A client that is
\* already connected raises.
ConnectDoneWith(t, w, maxB, errs) ==
    /\ workers[t][w].pc = "connecting"
    /\ \E outcome \in {"ok", "exc", "err_exc"}, err \in errs :
        /\ outcome = "ok" => ~sio[t].connected
        /\ CASE outcome = "ok" ->
                  /\ targets' = [targets EXCEPT ![t] = on_connect(targets[t])]
                  /\ hist' = [hist EXCEPT ![t] = register_emit(hist[t], targets[t])]
                  /\ sio' = [sio EXCEPT ![t] = [connected |-> TRUE, reconnecting |-> FALSE]]
                  /\ workers' = [workers EXCEPT ![t][w].pc = "returning"]
             [] outcome = "exc" ->
                  /\ targets[t].backoff_count + 1 <= maxB
                  /\ targets' = [targets EXCEPT ![t] = connect_except(targets[t], err, now)]
                  /\ workers' = [workers EXCEPT ![t][w].pc = "sleep"]
                  /\ UNCHANGED <<hist, sio>>
             [] outcome = "err_exc" ->
                  /\ targets[t].backoff_count + 2 <= maxB
                  /\ targets' = [targets EXCEPT ![t] =
                        connect_except(on_connect_error(targets[t], err, now), err, now)]
                  /\ workers' = [workers EXCEPT ![t][w].pc = "sleep"]
                  /\ UNCHANGED <<hist, sio>>
    /\ UNCHANGED <<now, start_called, config_vars, read_vars, session_id, frame_counter, caller,
                   send_ret, is_connected_ret>>

\* the same with the error texts of most specifications
ConnectDone(t, w, maxB) == ConnectDoneWith(t, w, maxB, ErrorTexts)

\* sio.connect(...) comes back while the endpoint accepts every connection: a
\* client that is not connected connects, and one that is connected already
\* (its own reconnection was faster) raises without firing connect_error
ConnectDoneUp(t, w, maxB) ==
    /\ ConnectDoneWith(t, w, maxB, ErrorTexts)
    /\ IF sio[t].connected
       THEN targets'[t].backoff_count = targets[t].backoff_count + 1
       ELSE sio'[t].connected

\* `return self.sio.connected`, read after sio.connect came back: True goes
\* on to the queue, False to time.sleep(0.5)
ConnectReturn(t, w) ==
    /\ workers[t][w].pc = "returning"
    /\ workers' = [workers EXCEPT ![t][w].pc =
                        IF sio[t].connected THEN "get" ELSE "sleep"]
    /\ UNCHANGED <<now, start_called, config_vars, read_vars, session_id, frame_counter, targets, sio, caller,
                   send_ret, is_connected_ret, hist>>

\* time.sleep(0.5) is over; continue
WorkerSleep(t, w) ==
    /\ workers[t][w].pc = "sleep"
    /\ workers' = [workers EXCEPT ![t][w].pc = "top"]
    /\ UNCHANGED <<now, start_called, config_vars, read_vars, session_id, frame_counter, targets, sio, caller,
                   send_ret, is_connected_ret, hist>>

\* self.queue.get(timeout=0.1) returns the oldest entry
WorkerGet(t, w) ==
    /\ workers[t][w].pc = "get"
    /\ targets[t].queue # <<>>
    /\ workers' = [workers EXCEPT ![t][w].pc = "got",
                                  ![t][w].item = Head(targets[t].queue)]
    /\ targets' = [targets EXCEPT ![t].queue = Tail(targets[t].queue)]
    /\ hist' = [hist EXCEPT ![t].dequeued = TRUE]
    /\ UNCHANGED <<now, start_called, config_vars, read_vars, session_id, frame_counter, sio, caller,
                   send_ret, is_connected_ret>>

\* self.queue.get(timeout=0.1) raises queue.Empty; continue
WorkerGetTimeout(t, w) ==
    /\ workers[t][w].pc = "get"
    /\ targets[t].queue = <<>>
    /\ workers' = [workers EXCEPT ![t][w].pc = "top"]
    /\ UNCHANGED <<now, start_called, config_vars, read_vars, session_id, frame_counter, targets, sio, caller,
                   send_ret, is_connected_ret, hist>>

\* a worker that records a pending entry for every frame it sent
emit_ok_always_pending(tg, f, t) ==
    [tg EXCEPT !.sent = tg.sent + 1,
               !.last_send_ok_ms = t,
               !.pending_acks = {p \in tg.pending_acks : p.id # f.fid}
                                \cup {[id |-> f.fid, at |-> t]}]

\* the target after a successful sio.emit of frame f at time t
emit_ok(tg, f, t) ==
    [tg EXCEPT !.sent = tg.sent + 1,
               !.last_send_ok_ms = t,
               !.pending_acks = IF f.ack /\ f.fid # <<>>
                                THEN {p \in tg.pending_acks : p.id # f.fid}
                                     \cup {[id |-> f.fid, at |-> t]}
                                ELSE tg.pending_acks]

\* a failure that is counted after the frame was counted as sent
emit_failed_after_sent(tg, err) ==
    [tg EXCEPT !.sent = tg.sent + 1, !.failed = tg.failed + 1, !.last_error = err]

\* the target after sio.emit raised
emit_failed(tg, err) ==
    [tg EXCEPT !.failed = tg.failed + 1, !.last_error = err]

\* the history after frame f was handed to sio.emit, which took it or raised
emitted_hist(h, f, ok) ==
    [h EXCEPT !.emitted = Append(@, f.n),
              !.sent_ok = IF ok /\ f.ack /\ f.fid # <<>> THEN @ \cup {f.fid} ELSE @]

\* the staleness check, then either the read of `dropped` (of dropped += 1)
\* or the emit of the entry
WorkerProcess(t, w) ==
    LET e == workers[t][w].item
        age_ms == now - e.queued_at IN
    /\ workers[t][w].pc = "got"
    /\ IF is_stale(age_ms) THEN
            /\ workers' = [workers EXCEPT ![t][w].pc = "drop",
                                          ![t][w].read = targets[t].dropped]
            /\ UNCHANGED <<targets, hist>>
       ELSE \E ok \in BOOLEAN, err \in ErrorTexts :
            /\ targets' = [targets EXCEPT ![t] =
                              IF ok THEN emit_ok(targets[t], e.f, now)
                                    ELSE emit_failed(targets[t], err)]
            /\ hist' = [hist EXCEPT ![t] = emitted_hist(@, e.f, ok)]
            /\ workers' = [workers EXCEPT ![t][w].pc = "top", ![t][w].item = NoEntry]
    /\ UNCHANGED <<now, start_called, config_vars, read_vars, session_id, frame_counter, sio, caller,
                   send_ret, is_connected_ret>>

\* the same in two steps, for a client whose 'relay:ack' handler runs
\* between them: the staleness check and sio.emit(event, data)
WorkerEmit(t, w) ==
    LET e == workers[t][w].item
        age_ms == now - e.queued_at IN
    /\ workers[t][w].pc = "got"
    /\ IF is_stale(age_ms) THEN
            /\ workers' = [workers EXCEPT ![t][w].pc = "drop",
                                          ![t][w].read = targets[t].dropped]
            /\ UNCHANGED <<targets, hist>>
       ELSE \E ok \in BOOLEAN, err \in ErrorTexts :
            /\ hist' = [hist EXCEPT ![t] = emitted_hist(@, e.f, ok)]
            /\ IF ok
               THEN /\ workers' = [workers EXCEPT ![t][w].pc = "emitted"]
                    /\ UNCHANGED targets
               ELSE /\ targets' = [targets EXCEPT ![t] = emit_failed(targets[t], err)]
                    /\ workers' = [workers EXCEPT ![t][w].pc = "top",
                                                  ![t][w].item = NoEntry]
    /\ UNCHANGED <<now, start_called, config_vars, read_vars, session_id, frame_counter, sio, caller,
                   send_ret, is_connected_ret>>

\* after sio.emit returned: sent += 1, last_send_ok_ms and the pending-ack
\* entry of a sampled frame
WorkerRecord(t, w) ==
    /\ workers[t][w].pc = "emitted"
    /\ targets' = [targets EXCEPT ![t] = emit_ok(targets[t], workers[t][w].item.f, now)]
    /\ workers' = [workers EXCEPT ![t][w].pc = "top", ![t][w].item = NoEntry]
    /\ UNCHANGED <<now, start_called, config_vars, read_vars, session_id, frame_counter, sio, caller,
                   send_ret, is_connected_ret, hist>>

\* the same with `self.sent += 1` in its two steps, for a target with more
\* than one worker thread: the read of sent
WorkerReadSent(t, w) ==
    /\ workers[t][w].pc = "emitted"
    /\ workers' = [workers EXCEPT ![t][w].pc = "count", ![t][w].read = targets[t].sent]
    /\ UNCHANGED <<now, start_called, config_vars, read_vars, session_id, frame_counter, targets, sio,
                   caller, send_ret, is_connected_ret, hist>>

\* the write of sent += 1, then last_send_ok_ms and the pending-ack entry of a
\* sampled frame
WorkerStoreSent(t, w) ==
    /\ workers[t][w].pc = "count"
    /\ targets' = [targets EXCEPT ![t] =
                      [emit_ok(targets[t], workers[t][w].item.f, now)
                          EXCEPT !.sent = workers[t][w].read + 1]]
    /\ workers' = [workers EXCEPT ![t][w] = [pc |-> "top", item |-> NoEntry, read |-> 0]]
    /\ UNCHANGED <<now, start_called, config_vars, read_vars, session_id, frame_counter, sio, caller,
                   send_ret, is_connected_ret, hist>>

\* the write of dropped += 1 for a stale entry; continue
WorkerDrop(t, w) ==
    /\ workers[t][w].pc = "drop"
    /\ targets' = [targets EXCEPT ![t].dropped = workers[t][w].read + 1]
    /\ workers' = [workers EXCEPT ![t][w] = [pc |-> "top", item |-> NoEntry, read |-> 0]]
    /\ UNCHANGED <<now, start_called, config_vars, read_vars, session_id, frame_counter, sio, caller,
                   send_ret, is_connected_ret, hist>>

-----------------------------------------------------------------------------
(* The Socket.IO client's own events (reconnection=True) *)

\* the link drops: the disconnect handler runs and the client starts reconnecting
LinkLoss(t) ==
    /\ sio[t].connected
    /\ sio' = [sio EXCEPT ![t] = [connected |-> FALSE, reconnecting |-> TRUE]]
    /\ targets' = [targets EXCEPT ![t] = on_disconnect(targets[t])]
    /\ UNCHANGED <<now, start_called, config_vars, read_vars, session_id, frame_counter, workers, caller,
                   send_ret, is_connected_ret, hist>>

\* a reconnection attempt of the client succeeds: the connect handler runs
ReconnectOk(t) ==
    /\ sio[t].reconnecting
    /\ ~sio[t].connected
    /\ sio' = [sio EXCEPT ![t] = [connected |-> TRUE, reconnecting |-> FALSE]]
    /\ targets' = [targets EXCEPT ![t] = on_connect(targets[t])]
    /\ hist' = [hist EXCEPT ![t] = register_emit(hist[t], targets[t])]
    /\ UNCHANGED <<now, start_called, config_vars, read_vars, session_id, frame_counter, workers, caller,
                   send_ret, is_connected_ret>>

\* a reconnection attempt of the client fails: the connect_error handler runs;
\* the client goes on trying or gives up (reconnection_attempts)
ReconnectFailWith(t, maxB, errs) ==
    /\ sio[t].reconnecting
    /\ ~sio[t].connected
    /\ targets[t].backoff_count + 1 <= maxB
    /\ \E err \in errs, again \in BOOLEAN :
        /\ targets' = [targets EXCEPT ![t] = on_connect_error(targets[t], err, now)]
        /\ sio' = [sio EXCEPT ![t].reconnecting = again]
    /\ UNCHANGED <<now, start_called, config_vars, read_vars, session_id, frame_counter, workers, caller,
                   send_ret, is_connected_ret, hist>>

\* the same with the error texts of most specifications
ReconnectFail(t, maxB) == ReconnectFailWith(t, maxB, ErrorTexts)

-----------------------------------------------------------------------------
(* The 'relay:ack' handler, run by the client's thread *)

\* lst.append(x), then lst.pop(0) if it holds more than cap samples
window_append(lst, x, cap) ==
    IF Len(lst) + 1 > cap THEN Tail(Append(lst, x)) ELSE Append(lst, x)

\* `frame_id and frame_id in self.pending_acks` (fid is <<>> when the message
\* has no frameId)
ack_matches(tg, fid) == fid # <<>> /\ \E p \in tg.pending_acks : p.id = fid

\* the pending entry of fid
pending_of(tg, fid) == CHOOSE p \in tg.pending_acks : p.id = fid

\* a handler that counts every acknowledgement
on_relay_ack_count_all(tg, fid, t) ==
    IF ack_matches(tg, fid)
    THEN LET p == pending_of(tg, fid)
             latency == t - p.at IN
         [tg EXCEPT !.pending_acks = @ \ {p},
                    !.acked = @ + 1,
                    !.last_ack_latency_ms = latency,
                    !.ack_latencies = window_append(@, latency, AckWindow)]
    ELSE [tg EXCEPT !.acked = @ + 1]

\* a handler that leaves the pending entry in the table
on_relay_ack_keep(tg, fid, t) ==
    IF ack_matches(tg, fid)
    THEN LET p == pending_of(tg, fid)
             latency == t - p.at IN
         [tg EXCEPT !.acked = @ + 1,
                    !.last_ack_latency_ms = latency,
                    !.ack_latencies = window_append(@, latency, AckWindow)]
    ELSE tg

\* on_relay_ack(data) at time t: the target afterwards
on_relay_ack(tg, fid, t) ==
    IF ack_matches(tg, fid)
    THEN LET p == pending_of(tg, fid)
             latency == t - p.at IN
         [tg EXCEPT !.pending_acks = @ \ {p},
                    !.acked = @ + 1,
                    !.last_ack_latency_ms = latency,
                    !.ack_latencies = window_append(@, latency, AckWindow)]
    ELSE tg

\* BackendManager._on_target_ack: the manager's window afterwards
on_target_ack(total, latency) == window_append(total, latency, TotalAckWindow)

\* _on_target_ack: `len(self.total_ack_latencies) > 1000`
total_over(total) == Len(total) > TotalAckWindow

\* the history after an acknowledgement of fid was handled by target tg
acked_hist(h, tg, fid) ==
    [h EXCEPT !.acks = Append(@, fid),
              !.matched = IF ack_matches(tg, fid) THEN @ \cup {fid} ELSE @]

\* the samples recorded so far, with the one of an acknowledgement of fid
\* handled by target t at time ts when it matches
arrived(tg, t, fid, ts) ==
    IF ack_matches(tg, fid)
    THEN Append(ack_arrivals, [t |-> t, latency |-> ts - pending_of(tg, fid).at])
    ELSE ack_arrivals

\* the frameIds an acknowledgement may carry: none, or that of a frame stamped
\* with counter 1 .. maxF at a time up to maxT
AckIds(maxF, maxT) ==
    {<<>>} \cup {frame_id(k, ts) : k \in 1 .. maxF,
                                   ts \in {x \in 0 .. maxT : x % 1000 = 0}}

\* a 'relay:ack' message carrying fid arrives on the connected client of t
RelayAck(t, fid, maxA) ==
    /\ sio[t].connected
    /\ Len(hist[t].acks) < maxA
    /\ targets' = [targets EXCEPT ![t] = on_relay_ack(targets[t], fid, now)]
    /\ total_ack_latencies' =
            IF ack_matches(targets[t], fid)
            THEN on_target_ack(total_ack_latencies,
                               now - pending_of(targets[t], fid).at)
            ELSE total_ack_latencies
    /\ hist' = [hist EXCEPT ![t] = acked_hist(@, targets[t], fid)]
    /\ ack_arrivals' = arrived(targets[t], t, fid, now)
    /\ UNCHANGED <<now, start_called, config_vars, stats_ret, parity_ret, error_call, ack_pc, session_id,
                   frame_counter, sio, workers, caller, send_ret, is_connected_ret>>

\* the handler on the thread of the client of t, in steps: a 'relay:ack' that
\* carries a pending frameId runs the target's part and the append of
\* _on_target_ack
AckBegin(t, fid) ==
    /\ sio[t].connected
    /\ ack_pc[t] = "idle"
    /\ ack_matches(targets[t], fid)
    /\ targets' = [targets EXCEPT ![t] = on_relay_ack(targets[t], fid, now)]
    /\ total_ack_latencies' =
            Append(total_ack_latencies, now - pending_of(targets[t], fid).at)
    /\ hist' = [hist EXCEPT ![t] = acked_hist(@, targets[t], fid)]
    /\ ack_arrivals' = arrived(targets[t], t, fid, now)
    /\ ack_pc' = [ack_pc EXCEPT ![t] = "check"]
    /\ UNCHANGED <<now, start_called, config_vars, stats_ret, parity_ret, error_call, session_id,
                   frame_counter, sio, workers, caller, send_ret, is_connected_ret>>

\* _on_target_ack: `if len(self.total_ack_latencies) > 1000`
AckCheck(t) ==
    /\ ack_pc[t] = "check"
    /\ ack_pc' = [ack_pc EXCEPT ![t] =
                      IF total_over(total_ack_latencies) THEN "pop" ELSE "idle"]
    /\ UNCHANGED <<now, start_called, config_vars, stats_ret, parity_ret, error_call, ack_arrivals,
                   total_ack_latencies, session_id, frame_counter, targets, sio,
                   workers, caller, send_ret, is_connected_ret, hist>>

\* _on_target_ack: `self.total_ack_latencies.pop(0)`; the handler returns
AckPop(t) ==
    /\ ack_pc[t] = "pop"
    /\ total_ack_latencies # <<>>
    /\ total_ack_latencies' = Tail(total_ack_latencies)
    /\ ack_pc' = [ack_pc EXCEPT ![t] = "idle"]
    /\ UNCHANGED <<now, start_called, config_vars, stats_ret, parity_ret, error_call, ack_arrivals,
                   session_id, frame_counter, targets, sio, workers, caller, send_ret,
                   is_connected_ret, hist>>

-----------------------------------------------------------------------------
(* BackendTarget.enqueue, run by calling thread c on target caller[c].i *)

\* a queue that is full one entry too late
queue_full_late(q) == Len(q) > MAX_QUEUE_SIZE

\* queue.Queue(maxsize=MAX_QUEUE_SIZE): put_nowait raises queue.Full
queue_full(q) == Len(q) >= MAX_QUEUE_SIZE

\* a fan-out that does not look at the enabled flag
next_any(i) == IF i \in TIdx THEN i ELSE -1

\* the for loop of send() in parallel mode: the next enabled target from i on
next_enabled(i) ==
    IF \E j \in TIdx : j >= i /\ targets[j].enabled
    THEN CHOOSE j \in TIdx : /\ j >= i /\ targets[j].enabled
                             /\ \A k \in TIdx : (k >= i /\ targets[k].enabled) => j <= k
    ELSE -1

\* a single mode that falls back to the first enabled target
route_first_fallback ==
    IF mode = "parallel" THEN next_enabled(0)
    ELSE IF /\ 0 <= primary_index /\ primary_index < NumTargets
            /\ targets[primary_index].enabled
         THEN primary_index
         ELSE next_enabled(0)

\* the target send() submits to first, -1 if none
route_first ==
    IF mode = "parallel" THEN next_enabled(0)
    ELSE IF 0 <= primary_index /\ primary_index < NumTargets
         THEN IF targets[primary_index].enabled THEN primary_index ELSE -1
         ELSE -1

\* a send() whose result is that of the last target only
send_success_last(prev, r) == r

\* send(): `if target.enqueue(...): success = True` in parallel mode,
\* `success = target.enqueue(...)` in single mode
send_success(prev, r) == IF mode = "parallel" THEN prev \/ r ELSE r

\* enqueue on caller[c].i returns r (put: the entry went into the queue):
\* send() goes on to the next target or returns
EnqReturn(c, r, put) ==
    LET t == caller[c].i
        s == send_success(caller[c].success, r)
        a == IF put THEN caller[c].acc \cup {t} ELSE caller[c].acc
        nxt == IF mode = "parallel" THEN next_enabled(t + 1) ELSE -1 IN
    IF nxt = -1
    THEN /\ caller' = [caller EXCEPT ![c] =
                          [IdleCaller EXCEPT !.tried = caller[c].tried, !.acc = a,
                                             !.arg = caller[c].arg]]
         /\ send_ret' = Ret(s)
         /\ hist' = [hist EXCEPT ![t].results = Append(@, r)]
    ELSE /\ caller' = [caller EXCEPT ![c] =
                          [pc |-> "put", i |-> nxt, frame |-> caller[c].frame,
                           success |-> s, read |-> 0,
                           tried |-> Append(caller[c].tried, nxt), acc |-> a,
                           arg |-> caller[c].arg]]
         /\ send_ret' = send_ret
         /\ hist' = [hist EXCEPT ![t].results = Append(@, r),
                                 ![nxt].submitted = Append(@, caller[c].frame.n)]

\* an enqueue that also refuses while the target is not connected
enqueue_refused_unconnected(tg) == ~tg.enabled \/ tg.state # "connected"

\* enqueue: `if not self.enabled: return False`
enqueue_refused(tg) == ~tg.enabled

\* the check of the enabled flag, then the first put_nowait
EnqPut(c) ==
    LET t == caller[c].i IN
    /\ caller[c].pc = "put"
    /\ IF enqueue_refused(targets[t]) THEN
            /\ EnqReturn(c, FALSE, FALSE)
            /\ UNCHANGED targets
       ELSE IF ~queue_full(targets[t].queue) THEN
            /\ targets' = [targets EXCEPT ![t].queue =
                              Append(@, [f |-> caller[c].frame, queued_at |-> now])]
            /\ EnqReturn(c, TRUE, TRUE)
       ELSE
            /\ caller' = [caller EXCEPT ![c].pc = "evict"]
            /\ UNCHANGED <<targets, send_ret, hist>>
    /\ UNCHANGED <<now, start_called, config_vars, read_vars, session_id, frame_counter, sio, workers,
                   is_connected_ret>>

\* an eviction that removes the newest entry
get_nowait_newest(q) == SubSeq(q, 1, Len(q) - 1)

\* queue.get_nowait() removes the oldest entry
get_nowait(q) == Tail(q)

\* except queue.Full: get_nowait drops the oldest entry, then the read of
\* `dropped` (of dropped += 1); on queue.Empty: pass
EnqEvict(c) ==
    LET t == caller[c].i IN
    /\ caller[c].pc = "evict"
    /\ IF targets[t].queue # <<>> THEN
            /\ targets' = [targets EXCEPT ![t].queue = get_nowait(@)]
            /\ caller' = [caller EXCEPT ![c].pc = "evicted",
                                        ![c].read = targets[t].dropped]
       ELSE
            /\ caller' = [caller EXCEPT ![c].pc = "retry"]
            /\ UNCHANGED targets
    /\ UNCHANGED <<now, start_called, config_vars, read_vars, session_id, frame_counter, sio, workers,
                   send_ret, is_connected_ret, hist>>

\* the write of dropped += 1 after the eviction
EnqCountEvicted(c) ==
    LET t == caller[c].i IN
    /\ caller[c].pc = "evicted"
    /\ targets' = [targets EXCEPT ![t].dropped = caller[c].read + 1]
    /\ caller' = [caller EXCEPT ![c].pc = "retry", ![c].read = 0]
    /\ UNCHANGED <<now, start_called, config_vars, read_vars, session_id, frame_counter, sio, workers,
                   send_ret, is_connected_ret, hist>>

\* the second put_nowait; on queue.Full the read of `dropped`
EnqRetry(c) ==
    LET t == caller[c].i IN
    /\ caller[c].pc = "retry"
    /\ IF ~queue_full(targets[t].queue) THEN
            /\ targets' = [targets EXCEPT ![t].queue =
                              Append(@, [f |-> caller[c].frame, queued_at |-> now])]
            /\ EnqReturn(c, TRUE, TRUE)
       ELSE
            /\ caller' = [caller EXCEPT ![c].pc = "rejected",
                                        ![c].read = targets[t].dropped]
            /\ UNCHANGED <<targets, send_ret, hist>>
    /\ UNCHANGED <<now, start_called, config_vars, read_vars, session_id, frame_counter, sio, workers,
                   is_connected_ret>>

\* the write of dropped += 1 for the rejected frame; return False
EnqReject(c) ==
    LET t == caller[c].i IN
    /\ caller[c].pc = "rejected"
    /\ targets' = [targets EXCEPT ![t].dropped = caller[c].read + 1]
    /\ EnqReturn(c, FALSE, FALSE)
    /\ UNCHANGED <<now, start_called, config_vars, read_vars, session_id, frame_counter, sio, workers,
                   is_connected_ret>>

-----------------------------------------------------------------------------
(* BackendManager; start, stop, set_session_id and is_connected are called  *)
(* by thread 1, send by any calling thread c                                *)

MainIdle == caller[1].pc = "idle"

\* a sampling decision that ignores the rate
may_sample_any(b) == TRUE

\* random.random() < sample_rate, with sample_rate > 0
may_sample(b) == (b => sample_rate > 0) /\ (sample_rate >= 100 => b)

\* a send() that never sees the kill switch
send_killed_never == FALSE

\* send(): `if self.kill_switch_active: return False`
send_killed == kill_switch_active

\* send(): the choice of the first target for frame fr, or `return success`
\* (False) when there is none; a is the caller's mapping as the step leaves it
SendRoute(c, fr, a) ==
    LET first == route_first IN
    IF first = -1
    THEN /\ caller' = [caller EXCEPT ![c] = [IdleCaller EXCEPT !.arg = a]]
         /\ send_ret' = Ret(FALSE)
         /\ UNCHANGED hist
    ELSE /\ caller' = [caller EXCEPT ![c] =
                          [pc |-> "put", i |-> first, frame |-> fr,
                           success |-> FALSE, read |-> 0,
                           tried |-> <<first>>, acc |-> {}, arg |-> a]]
         /\ hist' = [hist EXCEPT ![first].submitted = Append(@, fr.n)]
         /\ UNCHANGED send_ret

\* the number of send() calls that have passed the kill-switch check and were
\* routed to a target or are still on their way to one (for the bound only)
SendsStarted ==
    LET len(t) == Len(hist[t].submitted)
        most == IF TIdx = {} THEN 0
                ELSE len(CHOOSE t \in TIdx : \A u \in TIdx : len(u) <= len(t)) IN
    most + Cardinality({c \in CIdx : caller[c].pc \in {"count", "stamp"}})

\* send(event, data) with data one of the mappings ps: the kill-switch check,
\* then the read of frame_counter (of self.frame_counter += 1)
MgrSendData(c, maxF, ps) ==
    /\ caller[c].pc = "idle"
    /\ IF send_killed THEN
            /\ send_ret' = Ret(FALSE)
            /\ UNCHANGED caller
       ELSE
            /\ frame_counter < maxF
            /\ SendsStarted < maxF
            /\ \E d \in ps :
                caller' = [caller EXCEPT ![c] =
                             [IdleCaller EXCEPT !.pc = "count", !.read = frame_counter,
                                                !.arg = d]]
            /\ UNCHANGED send_ret
    /\ UNCHANGED <<now, start_called, config_vars, read_vars, session_id, frame_counter, targets,
                   sio, workers, is_connected_ret, hist>>

\* send() where the payload is not at stake
MgrSend(c, maxF) == MgrSendData(c, maxF, {BasePayload})

\* send(): the write of frame_counter += 1 and the sampling decision; an
\* unsampled frame goes to its first target
MgrSendCount(c) ==
    /\ caller[c].pc = "count"
    /\ frame_counter' = caller[c].read + 1
    /\ \E sampled \in {b \in BOOLEAN : may_sample(b)} :
        LET fr == [n |-> caller[c].read + 1, ack |-> FALSE, fid |-> <<>>,
                   data |-> caller[c].arg] IN
        IF sampled
        THEN /\ caller' = [caller EXCEPT ![c].pc = "stamp", ![c].frame = fr,
                                         ![c].read = 0]
             /\ UNCHANGED <<send_ret, hist>>
        ELSE SendRoute(c, fr, caller[c].arg)
    /\ UNCHANGED <<now, start_called, config_vars, read_vars, session_id, targets, sio, workers,
                   is_connected_ret>>

\* data['ackRequested'] = True and data['frameId'] = fid on the mapping d
with_ack_fields(d, fid) == [ackRequested |-> TRUE, frameId |-> fid] @@ d

\* a send() that attaches the fields to the mapping it was passed
caller_data_in_place(d, fid) == with_ack_fields(d, fid)

\* `data = data.copy()`: the fields go into a new mapping, and the one the
\* caller passed keeps its content d
caller_data(d, fid) == d

\* send(): ackRequested and frameId go into the copy of a sampled frame: the
\* counter is read again for the frameId; then the frame goes to its first target
MgrSendStamp(c) ==
    /\ caller[c].pc = "stamp"
    /\ LET fid == frame_id(frame_counter, now) IN
       SendRoute(c, [caller[c].frame EXCEPT !.ack = TRUE, !.fid = fid,
                                            !.data = with_ack_fields(caller[c].arg, fid)],
                 caller_data(caller[c].arg, fid))
    /\ UNCHANGED <<now, start_called, config_vars, read_vars, session_id, frame_counter, targets,
                   sio, workers, is_connected_ret>>

\* a start() without the kill-switch check
start_targets_unchecked == {t \in TIdx : targets[t].enabled}

\* the targets whose start() the manager's start() calls
start_targets ==
    IF kill_switch_active THEN {} ELSE {t \in TIdx : targets[t].enabled}

alive(t) == {w \in WIdx : workers[t][w].pc # "dead"}
free_slot(t) == CHOOSE w \in WIdx : workers[t][w].pc = "dead"

\* a BackendTarget.start() that creates a thread on every call
target_start_skips_never(tg) == FALSE

\* BackendTarget.start(): `if self.running: return`
target_start_skips(tg) == tg.running

\* start(), with BackendTarget.start() of each target it starts
MgrStart(maxW) ==
    LET starting == {t \in start_targets : ~target_start_skips(targets[t])} IN
    /\ MainIdle
    /\ \A t \in starting : Cardinality(alive(t)) < maxW
    /\ targets' = [t \in TIdx |-> IF t \in starting
                                  THEN [targets[t] EXCEPT !.running = TRUE]
                                  ELSE targets[t]]
    /\ workers' = [t \in TIdx |-> IF t \in starting
                                  THEN [workers[t] EXCEPT ![free_slot(t)].pc = "top"]
                                  ELSE workers[t]]
    /\ start_called' = TRUE
    /\ UNCHANGED <<now, config_vars, read_vars, session_id, frame_counter, sio, caller,
                   send_ret, is_connected_ret, hist>>

\* a stop() that counts the shutdown as a connection failure
target_stop_backs_off(tg) ==
    [tg EXCEPT !.running = FALSE, !.backoff_count = tg.backoff_count + 1]

\* BackendTarget.stop()
target_stop(tg) == [tg EXCEPT !.running = FALSE]

\* the targets after stop() was called on each, the clients being in state s:
\* sio.disconnect() of a connected client runs the disconnect handler
stopped_targets(tgs, s) ==
    [t \in DOMAIN tgs |-> IF s[t].connected
                          THEN on_disconnect(target_stop(tgs[t]))
                          ELSE target_stop(tgs[t])]

\* the clients after stop() was called on each target
stopped_sio(s) == [t \in DOMAIN s |-> [s[t] EXCEPT !.connected = FALSE]]

\* stop(): every target's stop()
MgrStop ==
    /\ MainIdle
    /\ targets' = stopped_targets(targets, sio)
    /\ sio' = stopped_sio(sio)
    /\ UNCHANGED <<now, start_called, config_vars, read_vars, session_id, frame_counter, workers, caller,
                   send_ret, is_connected_ret, hist>>

\* set_session_id(id)
MgrSetSessionId(id) ==
    /\ MainIdle
    /\ session_id' = id
    /\ targets' = [t \in TIdx |-> [targets[t] EXCEPT !.session_id = id]]
    /\ UNCHANGED <<now, start_called, config_vars, read_vars, frame_counter, sio, workers, caller,
                   send_ret, is_connected_ret, hist>>

\* an is_connected() that looks at every enabled target in single mode too
is_connected_any ==
    IF kill_switch_active THEN FALSE
    ELSE \E t \in TIdx : targets[t].enabled /\ targets[t].state = "connected"

\* is_connected()
is_connected ==
    IF kill_switch_active THEN FALSE
    ELSE IF mode = "parallel"
         THEN \E t \in TIdx : targets[t].enabled /\ targets[t].state = "connected"
         ELSE IF 0 <= primary_index /\ primary_index < NumTargets
              THEN targets[primary_index].enabled
                   /\ targets[primary_index].state = "connected"
              ELSE FALSE

\* the characters of an error text
Chars(err) ==
    CASE err = "" -> <<>>
      [] err = "timeout" -> <<"t", "i", "m", "e", "o", "u", "t">>
      [] err = "invalid token" -> <<"i", "n", "v", "a", "l", "i", "d", " ", "t", "o", "k", "e", "n">>
      [] err = "Bad Token" -> <<"B", "a", "d", " ", "T", "o", "k", "e", "n">>
      [] err = "monkey" -> <<"m", "o", "n", "k", "e", "y">>

UpperCase == <<"A", "B", "C", "D", "E", "F", "G", "H", "I", "J", "K", "L", "M", "N", "O", "P", "Q", "R", "S", "T", "U", "V", "W", "X", "Y", "Z">>
LowerCase == <<"a", "b", "c", "d", "e", "f", "g", "h", "i", "j", "k", "l", "m", "n", "o", "p", "q", "r", "s", "t", "u", "v", "w", "x", "y", "z">>

\* str.lower()
lower_char(ch) ==
    IF \E i \in 1 .. Len(UpperCase) : UpperCase[i] = ch
    THEN LowerCase[CHOOSE i \in 1 .. Len(UpperCase) : UpperCase[i] = ch]
    ELSE ch

lower(s) == [i \in 1 .. Len(s) |-> lower_char(s[i])]

\* `w in s` for two strings
is_in(w, s) ==
    \E i \in 0 .. Len(s) - Len(w) : \A j \in 1 .. Len(w) : s[i + j] = w[j]

\* ['token', 'key', 'secret', 'password', 'auth']
SensitiveWords ==
    {<<"t", "o", "k", "e", "n">>,
     <<"k", "e", "y">>,
     <<"s", "e", "c", "r", "e", "t">>,
     <<"p", "a", "s", "s", "w", "o", "r", "d">>,
     <<"a", "u", "t", "h">>}

\* a search that tells upper case from lower case
has_sensitive_exact(err) ==
    \E word \in SensitiveWords : is_in(word, Chars(err))

\* _safe_error: `word.lower() in safe.lower()` for one of the words
has_sensitive(err) ==
    \E word \in SensitiveWords : is_in(lower(word), lower(Chars(err)))

\* `if self.last_error`: None and the empty string count as no error
error_known(err) == err \notin {None, ""}

\* _safe_error, from `safe = self.last_error` on: the text read, or the
\* placeholder when it contains one of the sensitive words
redacted(err) ==
    IF has_sensitive(err) THEN "[error contains sensitive info]" ELSE err

\* BackendTarget._safe_error
safe_error(err) ==
    IF ~error_known(err) THEN "Unknown" ELSE redacted(err)

\* a get_stats() that reports a fresh TargetStats
get_stats_defaults(tg) ==
    [enabled |-> TRUE, state |-> "disconnected",
     sent |-> 0, failed |-> 0, acked |-> 0, dropped |-> 0,
     last_connect_attempt_ms |-> 0, last_send_ok_ms |-> 0,
     last_ack_latency_ms |-> 0, last_error |-> None,
     queue_size |-> 0, backoff_until_ms |-> 0]

\* BackendTarget.get_stats (the url is left out)
get_stats(tg) ==
    [enabled |-> tg.enabled, state |-> tg.state,
     sent |-> tg.sent, failed |-> tg.failed, acked |-> tg.acked,
     dropped |-> tg.dropped,
     last_connect_attempt_ms |-> 0, last_send_ok_ms |-> tg.last_send_ok_ms,
     last_ack_latency_ms |-> tg.last_ack_latency_ms,
     last_error |-> IF error_known(tg.last_error) THEN safe_error(tg.last_error)
                    ELSE None,
     queue_size |-> Len(tg.queue), backoff_until_ms |-> tg.backoff_until_ms]

\* get_target_stats()
get_target_stats == [t \in TIdx |-> get_stats(targets[t])]

\* sum(f(s) for s in stats), over the targets from index i on
RECURSIVE SumFrom(_, _, _)
SumFrom(stats, i, field) ==
    IF i \notin DOMAIN stats THEN 0
    ELSE stats[i][field] + SumFrom(stats, i + 1, field)

\* lst[-k:]
last_samples(lst, k) ==
    IF Len(lst) <= k THEN lst ELSE SubSeq(lst, Len(lst) - k + 1, Len(lst))

\* get_parity_snapshot()
get_parity_snapshot ==
    LET stats == get_target_stats IN
    [targets |-> stats,
     total_sent |-> SumFrom(stats, 0, "sent"),
     total_acked |-> SumFrom(stats, 0, "acked"),
     total_failed |-> SumFrom(stats, 0, "failed"),
     total_dropped |-> SumFrom(stats, 0, "dropped"),
     ack_latency_samples |-> last_samples(total_ack_latencies, AckWindow)]

\* get_target_stats() called by any thread at any time: it only reads
MgrGetTargetStats ==
    /\ stats_ret' = Ret(get_target_stats)
    /\ UNCHANGED <<now, start_called, config_vars, total_ack_latencies, parity_ret, error_call,
                   ack_pc, ack_arrivals,
                   session_id, frame_counter, targets, sio, workers, caller, send_ret,
                   is_connected_ret, hist>>

\* get_parity_snapshot() called by any thread at any time: it only reads
MgrGetParitySnapshot ==
    /\ parity_ret' = Ret(get_parity_snapshot)
    /\ UNCHANGED <<now, start_called, config_vars, total_ack_latencies, stats_ret, error_call,
                   ack_pc, ack_arrivals,
                   session_id, frame_counter, targets, sio, workers, caller, send_ret,
                   is_connected_ret, hist>>

\* get_stats() of target t by a thread of its own, the last_error expression
\* in the steps in which it reads self.last_error: first `if self.last_error`
\* of `self._safe_error() if self.last_error else None`
GetStatsError(t) ==
    /\ error_call.pc = "idle"
    /\ error_call' = IF error_known(targets[t].last_error)
                     THEN [pc |-> "check", t |-> t, ret |-> NoRet]
                     ELSE [pc |-> "idle", t |-> t, ret |-> Ret(None)]
    /\ UNCHANGED <<now, start_called, config_vars, total_ack_latencies, stats_ret,
                   parity_ret, ack_pc, ack_arrivals, session_id, frame_counter,
                   targets, sio, workers, caller, send_ret, is_connected_ret, hist>>

\* _safe_error: `if not self.last_error: return "Unknown"`
SafeErrorCheck ==
    /\ error_call.pc = "check"
    /\ error_call' = IF error_known(targets[error_call.t].last_error)
                     THEN [error_call EXCEPT !.pc = "copy"]
                     ELSE [error_call EXCEPT !.pc = "idle", !.ret = Ret("Unknown")]
    /\ UNCHANGED <<now, start_called, config_vars, total_ack_latencies, stats_ret,
                   parity_ret, ack_pc, ack_arrivals, session_id, frame_counter,
                   targets, sio, workers, caller, send_ret, is_connected_ret, hist>>

\* _safe_error: `safe = self.last_error`, the search for the words, return
SafeErrorCopy ==
    /\ error_call.pc = "copy"
    /\ error_call' = [error_call EXCEPT
                        !.pc = "idle",
                        !.ret = Ret(redacted(targets[error_call.t].last_error))]
    /\ UNCHANGED <<now, start_called, config_vars, total_ack_latencies, stats_ret,
                   parity_ret, ack_pc, ack_arrivals, session_id, frame_counter,
                   targets, sio, workers, caller, send_ret, is_connected_ret, hist>>

MgrIsConnected ==
    /\ MainIdle
    /\ is_connected_ret' = Ret(is_connected)
    /\ UNCHANGED <<now, start_called, config_vars, read_vars, session_id, frame_counter, targets, sio, workers,
                   caller, send_ret, hist>>

-----------------------------------------------------------------------------
(* Specifications *)

\* every configuration of up to MaxTargets targets with a sample rate in rates
ConfigsAt(rates) ==
    {c \in [n : 1 .. MaxTargets, kill : BOOLEAN, mode : {"single", "parallel"},
            primary : -1 .. MaxTargets, rate : rates,
            enabled : UNION {[0 .. k - 1 -> BOOLEAN] : k \in 1 .. MaxTargets}] :
        DOMAIN c.enabled = 0 .. c.n - 1}

\* the configurations that never sample
Configs == ConfigsAt({0})

\* RELAY_PARITY_SAMPLE_RATE 0.0 and 1.0, in percent
SampleRates == {0, 100}

\* one enabled target, the primary, kill switch off
OneTarget == {c \in Configs : c.n = 1 /\ c.enabled[0] /\ ~c.kill /\ c.primary = 0
                              /\ c.mode = "single"}

\* the steps of enqueue of the only calling thread c: after its own eviction
\* the second put_nowait always finds room (EnqReject needs a second caller)
EnqStep(c) == EnqPut(c) \/ EnqEvict(c) \/ EnqCountEvicted(c) \/ EnqRetry(c)

\* send() of an unsampled frame by thread c
SendStep(c, maxF) == MgrSend(c, maxF) \/ MgrSendCount(c)

SioStep(maxB) ==
    \E t \in TIdx :
        \/ LinkLoss(t)
        \/ ReconnectOk(t)
        \/ ReconnectFail(t, maxB)

\* Spec: one target from construction on; the manager is started and never
\* stopped, frames are sent, the client connects, fails and loses the link,
\* and time passes.
Init == InitWith(OneTarget)

Next ==
    \/ Tick(MaxTime)
    \/ \E t \in TIdx, w \in WIdx :
        \/ WorkerLoop(t, w)
        \/ ConnectDone(t, w, MaxBackoffCount)
        \/ ConnectReturn(t, w)
        \/ WorkerSleep(t, w)
        \/ WorkerGet(t, w)
        \/ WorkerGetTimeout(t, w)
        \/ WorkerProcess(t, w)
        \/ WorkerDrop(t, w)
    \/ SioStep(MaxBackoffCount)
    \/ EnqStep(1)
    \/ SendStep(1, MaxFrames)
    \/ MgrStart(MaxWorkers)

Spec == Init /\ [][Next]_vars

\* SpecRestart: one target whose manager is stopped and started again while
\* frames are sent; no time passes.
NextRestart ==
    \/ \E t \in TIdx, w \in WIdx :
        \/ WorkerLoop(t, w)
        \/ ConnectDone(t, w, MaxBackoffRestart)
        \/ ConnectReturn(t, w)
        \/ WorkerSleep(t, w)
        \/ WorkerGet(t, w)
        \/ WorkerGetTimeout(t, w)
        \/ WorkerProcess(t, w)
    \/ SioStep(MaxBackoffRestart)
    \/ EnqStep(1)
    \/ SendStep(1, MaxFramesRestart)
    \/ MgrStart(MaxWorkers)
    \/ MgrStop

SpecRestart == Init /\ [][NextRestart]_vars

\* SpecKill: every configuration with the kill switch active, under any
\* sequence of manager calls.
InitKill == InitWith({c \in Configs : c.kill})

NextKill ==
    \/ MgrSend(1, MaxFrames)
    \/ MgrStart(MaxWorkers)
    \/ MgrStop
    \/ \E id \in SessionIds : MgrSetSessionId(id)
    \/ MgrIsConnected

SpecKill == InitKill /\ [][NextKill]_vars

\* SpecConn: every configuration; the manager is started and stopped, the
\* targets connect, and is_connected() is called; no frame is sent and no
\* time passes.
InitConn == InitWith(Configs)

NextConn ==
    \/ \E t \in TIdx, w \in WIdx :
        \/ WorkerLoop(t, w)
        \/ ConnectDone(t, w, MaxBackoffConn)
        \/ ConnectReturn(t, w)
        \/ WorkerSleep(t, w)
        \/ WorkerGetTimeout(t, w)
    \/ SioStep(MaxBackoffConn)
    \/ MgrStart(MaxWorkersConn)
    \/ MgrStop
    \/ MgrIsConnected

SpecConn == InitConn /\ [][NextConn]_vars

\* SpecSend: every configuration with the kill switch off and every sample
\* rate; send() is called by MaxCallers threads at once, no worker runs and no
\* time passes.
InitSend == InitWith({c \in ConfigsAt(SampleRates) : ~c.kill})

NextSend ==
    \E c \in CIdx :
        \/ MgrSend(c, MaxFramesSend)
        \/ MgrSendCount(c)
        \/ MgrSendStamp(c)
        \/ EnqPut(c)
        \/ EnqEvict(c)
        \/ EnqCountEvicted(c)
        \/ EnqRetry(c)
        \/ EnqReject(c)

SpecSend == InitSend /\ [][NextSend]_vars

\* SpecAck: one target that samples every frame; frames are sent and emitted,
\* acknowledgements arrive with any frameId or none, the link drops, and time
\* passes.
InitAck == InitWith({c \in ConfigsAt({100}) :
                        c.n = 1 /\ c.enabled[0] /\ ~c.kill /\ c.primary = 0
                        /\ c.mode = "single"})

NextAck ==
    \/ Tick(MaxTimeAck)
    \/ \E t \in TIdx, w \in WIdx :
        \/ WorkerLoop(t, w)
        \/ ConnectDone(t, w, MaxBackoffConn)
        \/ ConnectReturn(t, w)
        \/ WorkerSleep(t, w)
        \/ WorkerGet(t, w)
        \/ WorkerGetTimeout(t, w)
        \/ WorkerProcess(t, w)
    \/ \E t \in TIdx : LinkLoss(t) \/ ReconnectOk(t)
    \/ \E t \in TIdx, fid \in AckIds(MaxFramesAck, MaxTimeAck) : RelayAck(t, fid, MaxAcks)
    \/ MgrSend(1, MaxFramesAck) \/ MgrSendCount(1) \/ MgrSendStamp(1)
    \/ EnqPut(1)
    \/ MgrStart(MaxWorkersConn)

SpecAck == InitAck /\ [][NextAck]_vars

\* SpecStats: two enabled targets in parallel mode that sample every frame,
\* and every configuration with the kill switch active; a frame is sent,
\* emitted and acknowledged while get_target_stats() and get_parity_snapshot()
\* are called at any time.
InitStats ==
    InitWith({c \in ConfigsAt({100}) :
                 \/ c.kill
                 \/ /\ c.n = MaxTargets /\ c.mode = "parallel" /\ c.primary = 0
                    /\ \A t \in 0 .. c.n - 1 : c.enabled[t]})

NextStats ==
    \/ \E t \in TIdx, w \in WIdx :
        \/ WorkerLoop(t, w)
        \/ ConnectDone(t, w, MaxBackoffStats)
        \/ ConnectReturn(t, w)
        \/ WorkerGet(t, w)
        \/ WorkerGetTimeout(t, w)
        \/ WorkerProcess(t, w)
    \/ \E t \in TIdx, fid \in AckIds(MaxFramesStats, 0) : RelayAck(t, fid, MaxAcksStats)
    \/ MgrSend(1, MaxFramesStats) \/ MgrSendCount(1) \/ MgrSendStamp(1)
    \/ EnqPut(1)
    \/ MgrStart(MaxWorkersConn)
    \/ MgrGetTargetStats
    \/ MgrGetParitySnapshot

SpecStats == InitStats /\ [][NextStats]_vars

\* SpecStop: one target whose manager is started once and stopped while
\* frames are sent and the client connects, fails and loses the link; no time
\* passes. The worker thread is scheduled fairly: every blocking call of the
\* loop (sio.connect with wait_timeout, time.sleep, queue.get with timeout,
\* sio.emit) comes back.
WorkerStep(t, w) ==
    \/ WorkerLoop(t, w)
    \/ ConnectDone(t, w, MaxBackoffStop)
    \/ ConnectReturn(t, w)
    \/ WorkerSleep(t, w)
    \/ WorkerGet(t, w)
    \/ WorkerGetTimeout(t, w)
    \/ WorkerProcess(t, w)

\* start() called once
MgrStartOnce == ~start_called /\ MgrStart(MaxWorkersConn)

NextStop ==
    \/ \E t \in TIdx, w \in WIdx : WorkerStep(t, w)
    \/ SioStep(MaxBackoffStop)
    \/ SendStep(1, MaxFramesStop)
    \/ EnqPut(1)
    \/ MgrStartOnce
    \/ MgrStop

FairStop ==
    \A t \in 0 .. MaxTargets - 1, w \in WIdx : WF_vars(t \in TIdx /\ WorkerStep(t, w))

SpecStop == Init /\ [][NextStop]_vars /\ FairStop

\* SpecStart: every choice of enabled flags for up to MaxTargets targets with
\* the kill switch off (start() and stop() read neither the mode nor the
\* primary index); the manager is started and stopped any number of times
\* while the workers connect; no frame is sent and no time passes.
InitStart == InitWith({c \in Configs : ~c.kill /\ c.mode = "parallel" /\ c.primary = 0})

NextStart ==
    \/ \E t \in TIdx, w \in WIdx :
        \/ WorkerLoop(t, w)
        \/ ConnectDone(t, w, MaxBackoffStart)
        \/ ConnectReturn(t, w)
        \/ WorkerSleep(t, w)
        \/ WorkerGetTimeout(t, w)
    \/ MgrStart(MaxWorkers)
    \/ MgrStop

SpecStart == InitStart /\ [][NextStart]_vars

\* SpecSession: every choice of enabled flags for up to MaxTargets targets
\* with the kill switch off; set_session_id() is called at any time with any
\* id while the manager is started and the clients connect, lose the link and
\* reconnect; no frame is sent and no time passes.
NextSession ==
    \/ \E t \in TIdx, w \in WIdx :
        \/ WorkerLoop(t, w)
        \/ ConnectDone(t, w, MaxBackoffSession)
        \/ ConnectReturn(t, w)
        \/ WorkerSleep(t, w)
        \/ WorkerGetTimeout(t, w)
    \/ SioStep(MaxBackoffSession)
    \/ MgrStart(MaxWorkersConn)
    \/ \E id \in SessionIdsAll : MgrSetSessionId(id)

SpecSession == InitStart /\ [][NextSession]_vars

\* SpecAckPar: MaxTargets enabled targets in parallel mode that sample every
\* frame, from the state in which the manager was started, every client is
\* connected and MaxFramesAckPar frames were sent and emitted to every target
\* at time 0 (the state that start(), the connects and MaxFramesAckPar calls
\* of send() lead to); the acknowledgements arrive in any order while time
\* passes, the handlers of different targets running concurrently on their
\* clients' threads.
SentFrames == 1 .. MaxFramesAckPar

SentSeq == [k \in SentFrames |-> k]

InitAckPar ==
    /\ now = 0
    /\ kill_switch_active = FALSE
    /\ mode = "parallel"
    /\ primary_index = 0
    /\ sample_rate = 100
    /\ session_id = None
    /\ frame_counter = MaxFramesAckPar
    /\ targets = [t \in 0 .. MaxTargets - 1 |->
                    [NewTarget(TRUE) EXCEPT
                        !.state = "connected", !.running = TRUE,
                        !.sent = MaxFramesAckPar,
                        !.pending_acks = {[id |-> frame_id(k, 0), at |-> 0] :
                                            k \in SentFrames}]]
    /\ sio = [t \in 0 .. MaxTargets - 1 |-> [connected |-> TRUE, reconnecting |-> FALSE]]
    /\ workers = [t \in 0 .. MaxTargets - 1 |->
                    [w \in WIdx |-> IF w = 1 THEN [NewWorker EXCEPT !.pc = "get"]
                                             ELSE NewWorker]]
    /\ caller = [k \in CIdx |->
                    IF k = 1
                    THEN [IdleCaller EXCEPT
                            !.tried = [i \in 1 .. MaxTargets |-> i - 1],
                            !.acc = 0 .. MaxTargets - 1,
                            !.arg = BasePayload]
                    ELSE IdleCaller]
    /\ send_ret = Ret(TRUE)
    /\ is_connected_ret = NoRet
    /\ start_called = TRUE
    /\ hist = [t \in 0 .. MaxTargets - 1 |->
                 [NewHist EXCEPT !.submitted = SentSeq,
                                 !.results = [k \in SentFrames |-> TRUE],
                                 !.emitted = SentSeq,
                                 !.sent_ok = {frame_id(k, 0) : k \in SentFrames},
                                 !.attempted = TRUE, !.dequeued = TRUE]]
    /\ total_ack_latencies = <<>>
    /\ stats_ret = NoRet
    /\ parity_ret = NoRet
    /\ ack_pc = [t \in 0 .. MaxTargets - 1 |-> "idle"]
    /\ ack_arrivals = <<>>
    /\ error_call = NoErrorCall

NextAckPar ==
    \/ Tick(MaxTimeAckPar)
    \/ \E t \in TIdx :
        \/ \E fid \in AckIds(MaxFramesAckPar, 0) : AckBegin(t, fid)
        \/ AckCheck(t)
        \/ AckPop(t)

SpecAckPar == InitAckPar /\ [][NextAckPar]_vars

\* SpecPending: one target that samples some frames and not others; frames
\* are sent, evicted, go stale, are emitted or fail, and the relay
\* acknowledges frames it was sent, at any time after the emit (before the
\* worker has recorded the pending entry too) and more than once, while time
\* passes.
InitPending == InitWith({c \in ConfigsAt({50}) :
                            c.n = 1 /\ c.enabled[0] /\ ~c.kill /\ c.primary = 0
                            /\ c.mode = "single"})

NextPending ==
    \/ Tick(MaxTimePending)
    \/ \E t \in TIdx, w \in WIdx :
        \/ WorkerLoop(t, w)
        \/ ConnectDone(t, w, MaxBackoffPending)
        \/ ConnectReturn(t, w)
        \/ WorkerSleep(t, w)
        \/ WorkerGet(t, w)
        \/ WorkerGetTimeout(t, w)
        \/ WorkerEmit(t, w)
        \/ WorkerRecord(t, w)
        \/ WorkerDrop(t, w)
    \/ \E t \in TIdx : \E fid \in hist[t].sent_ok : RelayAck(t, fid, MaxAcksPending)
    \/ MgrSend(1, MaxFramesPending) \/ MgrSendCount(1) \/ MgrSendStamp(1)
    \/ EnqStep(1)
    \/ MgrStart(MaxWorkersConn)

SpecPending == InitPending /\ [][NextPending]_vars

\* SpecPayload: MaxTargets targets with every choice of enabled flags, in
\* single and parallel mode, that sample some frames and not others; send() is
\* called with any of the mappings Payloads and frames are evicted; no worker
\* runs and no time passes.
InitPayload == InitWith({c \in ConfigsAt({50}) :
                            ~c.kill /\ c.n = MaxTargets /\ c.primary = 0})

NextPayload ==
    \/ MgrSendData(1, MaxFramesPayload, Payloads)
    \/ MgrSendCount(1)
    \/ MgrSendStamp(1)
    \/ EnqStep(1)

SpecPayload == InitPayload /\ [][NextPayload]_vars

\* SpecError: one target whose connection attempts and reconnections fail
\* with any of the texts ErrorTextsAll while another thread calls get_stats()
\* at any time; no frame is sent and no time passes.
NextError ==
    \/ \E t \in TIdx, w \in WIdx :
        \/ WorkerLoop(t, w)
        \/ ConnectDoneWith(t, w, MaxBackoffError, ErrorTextsAll)
        \/ ConnectReturn(t, w)
        \/ WorkerSleep(t, w)
        \/ WorkerGetTimeout(t, w)
    \/ \E t \in TIdx :
        \/ LinkLoss(t)
        \/ ReconnectOk(t)
        \/ ReconnectFailWith(t, MaxBackoffError, ErrorTextsAll)
        \/ GetStatsError(t)
    \/ SafeErrorCheck
    \/ SafeErrorCopy
    \/ MgrStart(MaxWorkersConn)

SpecError == Init /\ [][NextError]_vars

\* SpecWorkers: one target that samples every frame and whose manager is
\* stopped and started again, so that up to MaxWorkers threads run its loop;
\* frames are sent and emitted and the relay acknowledges frames it was sent;
\* no time passes.
NextWorkers ==
    \/ \E t \in TIdx, w \in WIdx :
        \/ WorkerLoop(t, w)
        \/ ConnectDone(t, w, MaxBackoffWorkers)
        \/ ConnectReturn(t, w)
        \/ WorkerGet(t, w)
        \/ WorkerGetTimeout(t, w)
        \/ WorkerEmit(t, w)
        \/ WorkerReadSent(t, w)
        \/ WorkerStoreSent(t, w)
    \/ \E t \in TIdx : \E fid \in hist[t].sent_ok : RelayAck(t, fid, MaxAcksWorkers)
    \/ MgrSend(1, MaxFramesWorkers) \/ MgrSendCount(1) \/ MgrSendStamp(1)
    \/ EnqPut(1)
    \/ MgrStart(MaxWorkers)
    \/ MgrStop

SpecWorkers == InitAck /\ [][NextWorkers]_vars

\* SpecLive: one target whose manager is started and never stopped; the
\* endpoint accepts every connection attempt, of the worker and of the client's
\* own reconnection, the link drops at any time, and time passes. The worker
\* thread is scheduled fairly and the clock advances.
LiveStep(t, w) ==
    \/ WorkerLoop(t, w)
    \/ ConnectDoneUp(t, w, MaxBackoffLive)
    \/ ConnectReturn(t, w)
    \/ WorkerSleep(t, w)
    \/ WorkerGetTimeout(t, w)

NextLive ==
    \/ Tick(MaxTimeLive)
    \/ \E t \in TIdx, w \in WIdx : LiveStep(t, w)
    \/ \E t \in TIdx : LinkLoss(t) \/ ReconnectOk(t)
    \/ MgrStart(MaxWorkersConn)

FairLive ==
    /\ WF_vars(Tick(MaxTimeLive))
    /\ \A t \in 0 .. MaxTargets - 1, w \in WIdx : WF_vars(t \in TIdx /\ LiveStep(t, w))

SpecLive == Init /\ [][NextLive]_vars /\ FairLive

\* SpecDrain: one target that is started, connects, after a failed attempt or
\* at once, and then stays connected (the link holds and nobody stops it)
\* while frames are sent and time passes. The
\* worker thread and the thread inside enqueue are scheduled fairly.
DrainStep(t, w) ==
    \/ WorkerLoop(t, w)
    \/ ConnectDone(t, w, MaxBackoffDrain)
    \/ ConnectReturn(t, w)
    \/ WorkerSleep(t, w)
    \/ WorkerGet(t, w)
    \/ WorkerGetTimeout(t, w)
    \/ WorkerProcess(t, w)
    \/ WorkerDrop(t, w)

NextDrain ==
    \/ Tick(MaxTimeDrain)
    \/ \E t \in TIdx, w \in WIdx : DrainStep(t, w)
    \/ EnqStep(1)
    \/ SendStep(1, MaxFramesDrain)
    \/ MgrStart(MaxWorkersConn)

FairDrain ==
    /\ \A t \in 0 .. MaxTargets - 1, w \in WIdx : WF_vars(t \in TIdx /\ DrainStep(t, w))
    /\ WF_vars(EnqStep(1))

SpecDrain == Init /\ [][NextDrain]_vars /\ FairDrain

-----------------------------------------------------------------------------
(* Properties *)

\* C1: in every reachable state every target's queue holds at most
\* MAX_QUEUE_SIZE entries, however enqueue and the worker's dequeues interleave.
C1_QueueBounded ==
    \A t \in TIdx : Len(targets[t].queue) <= MAX_QUEUE_SIZE

\* C1 witness: a full queue after the worker has dequeued and enqueue has evicted
C1_Witness ==
    \E t \in TIdx : /\ Len(targets[t].queue) = MAX_QUEUE_SIZE
                    /\ hist[t].dequeued
                    /\ targets[t].dropped > 0

\* the frame numbers held by a queue, oldest first
QueueFrames(q) == [i \in 1 .. Len(q) |-> q[i].f.n]

\* C2: for an enabled target that no worker has dequeued from, once n > capacity
\* enqueue calls have returned, dropped = n - capacity, every call returned
\* True and the queue holds the last `capacity` frames submitted, in order.
C2_OverflowKeepsNewest ==
    \A t \in TIdx :
        LET n == Len(hist[t].results) IN
        (/\ targets[t].enabled
         /\ ~hist[t].dequeued
         /\ \A c \in CIdx : caller[c].pc = "idle"
         /\ n > MAX_QUEUE_SIZE)
        => /\ targets[t].dropped = n - MAX_QUEUE_SIZE
           /\ \A i \in 1 .. n : hist[t].results[i] = TRUE
           /\ QueueFrames(targets[t].queue)
                = SubSeq(hist[t].submitted, n - MAX_QUEUE_SIZE + 1, n)

\* C2 witness: two frames more than the capacity were enqueued, none dequeued
C2_Witness ==
    \E t \in TIdx : /\ targets[t].enabled
                    /\ ~hist[t].dequeued
                    /\ \A c \in CIdx : caller[c].pc = "idle"
                    /\ Len(hist[t].results) = MAX_QUEUE_SIZE + 2
                    /\ targets[t].dropped = 2

Occurs(s, x) == \E i \in 1 .. Len(s) : s[i] = x
Pos(s, x) == CHOOSE i \in 1 .. Len(s) : s[i] = x

\* a is a subsequence of s (the entries of s are distinct)
IsSubseq(a, s) ==
    /\ \A i \in 1 .. Len(a) : Occurs(s, a[i])
    /\ \A i, j \in 1 .. Len(a) : i < j => Pos(s, a[i]) < Pos(s, a[j])

\* C3: for every target, the frames handed to sio.emit, in the order of the
\* emit calls, are a subsequence of the frames submitted to its enqueue.
C3_EmittedInOrder ==
    \A t \in TIdx : IsSubseq(hist[t].emitted, hist[t].submitted)

C5_Delay(k) == IF 1000 * (2 ^ k) <= 30000 THEN 1000 * (2 ^ k) ELSE 30000

\* C5: every failed connection attempt increments the backoff counter by exactly
\* one, to k, and sets the expiry to the failure time + min(1000 * 2^k, 30000).
C5_BackoffSchedule ==
    [][\A t \in TIdx :
        targets'[t].backoff_count > targets[t].backoff_count
        => /\ targets'[t].backoff_count = targets[t].backoff_count + 1
           /\ targets'[t].backoff_until_ms
                = now + C5_Delay(targets[t].backoff_count + 1)]_vars

\* C6: when connect() returns True (sio.connected read as True after
\* sio.connect came back) the state is CONNECTED and the backoff counter is 0,
\* and so it is whenever the state is CONNECTED, where connect() returns True
\* at once.
C6_ConnectedResetsBackoff ==
    [][\A t \in TIdx :
        /\ targets'[t].state = "connected" => targets'[t].backoff_count = 0
        /\ \A w \in WIdx :
            (workers[t][w].pc = "returning" /\ workers'[t][w].pc = "get")
            => /\ targets'[t].state = "connected"
               /\ targets'[t].backoff_count = 0]_vars

\* C7: a connect() called in BACKOFF before the expiry time returns False (the
\* worker goes to sleep), starts no connection attempt and leaves the target,
\* its state, backoff counter and expiry included, and the client unchanged.
C7_BackoffBlocksConnect ==
    [][\A t \in TIdx, w \in WIdx :
        (/\ workers[t][w].pc = "top"
         /\ targets[t].running
         /\ targets[t].state = "backoff"
         /\ now < targets[t].backoff_until_ms
         /\ workers'[t][w].pc # "top")
        => /\ workers'[t][w].pc = "sleep"
           /\ targets'[t] = targets[t]
           /\ sio'[t] = sio[t]
           /\ hist'[t].attempted = hist[t].attempted]_vars

\* C7 witness: a connect() was refused and the target is still in BACKOFF
\* before its expiry time
C7_Witness ==
    \E t \in TIdx, w \in WIdx :
        /\ hist[t].refused
        /\ workers[t][w].pc = "sleep"
        /\ targets[t].state = "backoff"
        /\ now < targets[t].backoff_until_ms

\* C8: with the kill switch active no send() returns True, the frame counter
\* stays 0 and no target's queue, dropped counter or submission history changes.
C8_KilledSendNoEffect ==
    kill_switch_active =>
        /\ send_ret # Ret(TRUE)
        /\ frame_counter = 0
        /\ \A c \in CIdx : caller[c] = IdleCaller
        /\ \A t \in TIdx : /\ targets[t].queue = <<>>
                           /\ targets[t].dropped = 0
                           /\ hist[t].submitted = <<>>

\* C8 witness: a send() has returned False under the kill switch, in parallel
\* mode with an enabled target
C8_Witness ==
    /\ kill_switch_active
    /\ send_ret = Ret(FALSE)
    /\ mode = "parallel"
    /\ \E t \in TIdx : targets[t].enabled

\* C9: with the kill switch active, after any sequence of start(), stop(),
\* send() and set_session_id() no target is running or has a live worker, none
\* has attempted a connection or has a connected or reconnecting client, and
\* every target is DISCONNECTED.
C9_KilledNoWorker ==
    kill_switch_active =>
        \A t \in TIdx :
            /\ ~targets[t].running
            /\ targets[t].state = "disconnected"
            /\ ~hist[t].attempted
            /\ ~sio[t].connected
            /\ ~sio[t].reconnecting
            /\ \A w \in WIdx : workers[t][w].pc = "dead"

\* C9 witness: start(), send() and set_session_id() have been called under the
\* kill switch with an enabled target
C9_Witness ==
    /\ kill_switch_active
    /\ start_called
    /\ send_ret = Ret(FALSE)
    /\ session_id # None
    /\ \E t \in TIdx : targets[t].enabled

\* what C10 says is_connected() returns
C10_Expected ==
    /\ ~kill_switch_active
    /\ \/ /\ mode = "parallel"
          /\ \E t \in TIdx : targets[t].enabled /\ targets[t].state = "connected"
       \/ /\ mode # "parallel"
          /\ primary_index \in TIdx
          /\ targets[primary_index].enabled
          /\ targets[primary_index].state = "connected"

\* C10: every call of is_connected() returns False under the kill switch, in
\* parallel mode whether some enabled target is CONNECTED, and in single mode
\* whether the primary index is in range and that target is enabled and
\* CONNECTED.
C10_IsConnected ==
    [][MgrIsConnected => is_connected_ret' = Ret(C10_Expected)]_vars

\* C10 witness: is_connected() has returned True in single mode with two targets
C10_Witness ==
    /\ is_connected_ret = Ret(TRUE)
    /\ mode = "single"
    /\ NumTargets = 2

\* a send() of thread c returns in this step
SendReturns(c) == caller[c].pc # "idle" /\ caller'[c].pc = "idle"

\* the enabled targets in ascending order
EnabledSeq ==
    LET en == {t \in TIdx : targets[t].enabled} IN
    CHOOSE q \in [1 .. Cardinality(en) -> en] :
        \A i, j \in 1 .. Cardinality(en) : i < j => q[i] < q[j]

\* C11: in parallel mode with the kill switch off, a send() that returns has
\* called enqueue exactly once on each enabled target and on no disabled one,
\* and no step of a send() changes a disabled target or submits to it.
C11_ParallelFanOut ==
    [][(mode = "parallel" /\ ~kill_switch_active) =>
        /\ \A c \in CIdx : SendReturns(c) => caller'[c].tried = EnabledSeq
        /\ \A t \in TIdx : ~targets[t].enabled
                => /\ targets'[t] = targets[t]
                   /\ hist'[t] = hist[t]
                   /\ hist[t].submitted = <<>>]_vars

\* C11 witness: a parallel send() over one disabled and one enabled target has
\* returned after one enqueue on the enabled target
C11_Witness ==
    /\ mode = "parallel"
    /\ NumTargets = 2
    /\ ~targets[0].enabled
    /\ targets[1].enabled
    /\ caller[1].pc = "idle"
    /\ caller[1].tried = <<1>>
    /\ Len(targets[1].queue) = 1

\* C12: in parallel mode with the kill switch off, a send() returns True
\* exactly when the queue of at least one target took its frame (False when no
\* target is enabled or every enqueue was rejected).
C12_ParallelResult ==
    [][(mode = "parallel" /\ ~kill_switch_active) =>
        \A c \in CIdx :
            SendReturns(c) => send_ret' = Ret(caller'[c].acc # {})]_vars

\* C12 witness: a parallel send() has returned True although one of its two
\* targets rejected the frame
C12_Witness ==
    /\ mode = "parallel"
    /\ send_ret = Ret(TRUE)
    /\ \E c \in CIdx : /\ caller[c].pc = "idle"
                        /\ caller[c].tried = <<0, 1>>
                        /\ caller[c].acc = {0}

\* C13: in single mode no step of a send() changes a target other than the one
\* at primary_index or submits to it; when primary_index is out of range or the
\* primary target is disabled, no target changes and every send() returns False.
C13_SinglePrimaryOnly ==
    [][(mode = "single" /\ ~kill_switch_active) =>
        /\ \A t \in TIdx : t # primary_index
                => /\ targets'[t] = targets[t]
                   /\ hist'[t] = hist[t]
        /\ (primary_index \notin TIdx \/ ~targets[primary_index].enabled)
            => /\ targets' = targets
               /\ hist' = hist
               /\ \A c \in CIdx : SendReturns(c) => send_ret' = Ret(FALSE)]_vars

\* C13 witness: two targets, single mode, the primary (index 1) disabled and
\* the other enabled: two send() calls have returned False
C13_Witness ==
    /\ mode = "single"
    /\ NumTargets = 2
    /\ primary_index = 1
    /\ ~targets[1].enabled
    /\ targets[0].enabled
    /\ frame_counter = 2
    /\ send_ret = Ret(FALSE)
    /\ \A c \in CIdx : caller[c].pc = "idle"

\* C14: with sample_rate 1.0 every frame that send() enqueues carries
\* ackRequested and a non-empty frameId; with sample_rate 0.0 none carries either.
C14_SampleRateExtremes ==
    \A t \in TIdx : \A i \in 1 .. Len(targets[t].queue) :
        LET f == targets[t].queue[i].f IN
        /\ sample_rate = 100 => (f.ack /\ f.fid # <<>>)
        /\ sample_rate = 0 => (~f.ack /\ f.fid = <<>>)

\* C14 witness: with sample_rate 1.0 a queue holds two sampled frames
C14_Witness ==
    /\ sample_rate = 100
    /\ \E t \in TIdx : /\ Len(targets[t].queue) = 2
                        /\ targets[t].queue[1].f.ack
                        /\ targets[t].queue[2].f.ack

\* C15: the frameIds attached by distinct send() calls are pairwise distinct:
\* no queue holds two sampled frames with the same frameId (a send() puts its
\* frame into a queue at most once), also with concurrent callers.
C15_FrameIdsDistinct ==
    \A t \in TIdx : \A i, j \in 1 .. Len(targets[t].queue) :
        LET f == targets[t].queue[i].f
            g == targets[t].queue[j].f IN
        (i < j /\ f.ack /\ g.ack) => f.fid # g.fid

\* a 'relay:ack' carrying fid is delivered to target t in this step
AckDelivered(t, fid) == hist'[t].acks = Append(hist[t].acks, fid)

\* C16: an acknowledgement whose frameId is missing or not in the target's
\* pending-ack table changes nothing of the target (counters, last ack latency,
\* latency window, pending-ack table) and nothing of the manager's window.
C16_UnmatchedAckNoOp ==
    [][\A t \in TIdx, fid \in AckIds(MaxFramesAck, MaxTimeAck) :
        (/\ AckDelivered(t, fid)
         /\ ~\E p \in targets[t].pending_acks : p.id = fid)
        => /\ targets'[t] = targets[t]
           /\ total_ack_latencies' = total_ack_latencies]_vars

\* C16 witness: an acknowledgement without frameId and one with a frameId not
\* in the table were delivered while an entry was pending; nothing was acked
C16_Witness ==
    \E t \in TIdx :
        /\ Len(hist[t].acks) = 2
        /\ hist[t].acks[1] = <<>>
        /\ hist[t].acks[2] # <<>>
        /\ targets[t].pending_acks # {}
        /\ targets[t].sent = 1
        /\ targets[t].acked = 0
        /\ targets[t].ack_latencies = <<>>
        /\ total_ack_latencies = <<>>

\* C17: an acknowledgement whose frameId is in the pending-ack table removes
\* that entry, adds one to acked and records the latency now - sent_at >= 0 (in
\* the target's and the manager's windows); the frameId is then absent from the
\* table, so that a repeated delivery finds no entry, and acked changes in no
\* other step.
C17_MatchedAckOnce ==
    [][\A t \in TIdx :
        /\ targets'[t].acked # targets[t].acked
            => \E fid \in AckIds(MaxFramesAck, MaxTimeAck) :
                /\ AckDelivered(t, fid)
                /\ \E p \in targets[t].pending_acks : p.id = fid
        /\ \A fid \in AckIds(MaxFramesAck, MaxTimeAck) :
            (/\ AckDelivered(t, fid)
             /\ fid # <<>>
             /\ \E p \in targets[t].pending_acks : p.id = fid)
            => LET p == CHOOSE q \in targets[t].pending_acks : q.id = fid
                   a == targets'[t].ack_latencies
                   m == total_ack_latencies' IN
               /\ targets'[t].pending_acks = targets[t].pending_acks \ {p}
               /\ ~\E q \in targets'[t].pending_acks : q.id = fid
               /\ targets'[t].acked = targets[t].acked + 1
               /\ targets'[t].last_ack_latency_ms = now - p.at
               /\ targets'[t].last_ack_latency_ms >= 0
               /\ a # <<>> /\ a[Len(a)] = now - p.at
               /\ m # <<>> /\ m[Len(m)] = now - p.at
               /\ targets'[t].sent = targets[t].sent
               /\ targets'[t].failed = targets[t].failed
               /\ targets'[t].dropped = targets[t].dropped]_vars

\* C17 witness: the same frameId was acknowledged twice, 1000 ms after the
\* send, and acked is 1
C17_Witness ==
    \E t \in TIdx :
        /\ Len(hist[t].acks) = 2
        /\ hist[t].acks[1] = hist[t].acks[2]
        /\ targets[t].acked = 1
        /\ targets[t].last_ack_latency_ms = 1000
        /\ targets[t].ack_latencies = <<1000>>
        /\ total_ack_latencies = <<1000>>

\* the sum of a counter over the targets in S
RECURSIVE StoredTotal(_, _)
StoredTotal(S, field) ==
    IF S = {} THEN 0
    ELSE LET t == CHOOSE u \in S : TRUE IN
         targets[t][field] + StoredTotal(S \ {t}, field)

\* r reports what target t stores
ReportsStored(r, t) ==
    LET tg == targets[t] IN
    /\ r.enabled = tg.enabled
    /\ r.state = tg.state
    /\ r.sent = tg.sent
    /\ r.failed = tg.failed
    /\ r.acked = tg.acked
    /\ r.dropped = tg.dropped
    /\ r.last_send_ok_ms = tg.last_send_ok_ms
    /\ r.last_ack_latency_ms = tg.last_ack_latency_ms
    /\ r.queue_size = Len(tg.queue)
    /\ r.backoff_until_ms = tg.backoff_until_ms
    /\ r.last_error = IF tg.last_error \in SensitiveTexts
                      THEN "[error contains sensitive info]" ELSE tg.last_error

\* C18: a step in which get_target_stats() or get_parity_snapshot() returns
\* changes nothing but the returned value (no queue, counter, connection state,
\* pending-ack table, latency window or frame counter, kill switch active or
\* not), and the value reports what is stored: each target's fields, the sums
\* of the counters and the latest samples of the manager's window.
C18_StatsReadOnly ==
    [][(stats_ret' # stats_ret \/ parity_ret' # parity_ret) =>
        /\ UNCHANGED <<now, config_vars, session_id, frame_counter, targets, sio,
                       workers, caller, send_ret, is_connected_ret, start_called,
                       hist, total_ack_latencies, ack_pc, ack_arrivals, error_call>>
        /\ stats_ret' # stats_ret =>
            /\ DOMAIN stats_ret'[1] = TIdx
            /\ \A t \in TIdx : ReportsStored(stats_ret'[1][t], t)
        /\ parity_ret' # parity_ret =>
            LET r == parity_ret'[1]
                n == Len(total_ack_latencies)
                k == Len(r.ack_latency_samples) IN
            /\ DOMAIN r.targets = TIdx
            /\ \A t \in TIdx : ReportsStored(r.targets[t], t)
            /\ r.total_sent = StoredTotal(TIdx, "sent")
            /\ r.total_acked = StoredTotal(TIdx, "acked")
            /\ r.total_failed = StoredTotal(TIdx, "failed")
            /\ r.total_dropped = StoredTotal(TIdx, "dropped")
            /\ k = Min2(n, AckWindow)
            /\ \A i \in 1 .. k :
                    r.ack_latency_samples[i] = total_ack_latencies[n - k + i]]_vars

\* C18 witness: both calls have returned non-zero values: a frame sent and
\* acknowledged by one target, with its latency sample, and a failed emit of
\* the other
C18_Witness ==
    /\ stats_ret # NoRet
    /\ parity_ret # NoRet
    /\ parity_ret[1].total_sent = 1
    /\ parity_ret[1].total_failed = 1
    /\ parity_ret[1].total_acked = 1
    /\ parity_ret[1].ack_latency_samples = <<0>>
    /\ \E t \in TIdx : /\ stats_ret[1][t].sent = 1
                        /\ stats_ret[1][t].acked = 1
                        /\ stats_ret[1][t].state = "connected"
    /\ \E t \in TIdx : /\ stats_ret[1][t].failed = 1
                        /\ stats_ret[1][t].last_error = "timeout"

\* C19: along every execution no target's sent, failed, acked or dropped
\* counter decreases, also when enqueue's overflow drop and the worker's
\* staleness drop interleave their reads and writes of dropped.
C19_CountersMonotonic ==
    [][\A t \in TIdx :
        /\ targets'[t].sent >= targets[t].sent
        /\ targets'[t].failed >= targets[t].failed
        /\ targets'[t].acked >= targets[t].acked
        /\ targets'[t].dropped >= targets[t].dropped]_vars

AllStopped == \A t \in TIdx : ~targets[t].running
AllWorkersDead == \A t \in TIdx, w \in WIdx : workers[t][w].pc = "dead"

\* C20: once stop() has been called (and start() is not called again) every
\* worker eventually leaves its loop, whatever the state of the target and
\* whether or not its queue is empty.
C20_StopExits == AllStopped ~> AllWorkersDead

\* C20 witness: after start() and stop() the worker has left its loop with a
\* frame still queued, having been stopped in the middle of a connection
C20_Witness ==
    /\ start_called
    /\ AllStopped
    /\ AllWorkersDead
    /\ \E t \in TIdx : /\ targets[t].queue # <<>>
                        /\ hist[t].attempted
                        /\ targets[t].state = "backoff"

\* C21: once stop() has been called and every worker has left its loop, no
\* target's client is connected, also when stop() ran while the worker was
\* inside sio.connect and the connection was established afterwards.
C21_StoppedClosed ==
    (start_called /\ AllStopped /\ AllWorkersDead)
        => \A t \in TIdx : ~sio[t].connected

\* the changes of connection state the state machine allows
C22_Allowed ==
    {<<"disconnected", "connecting">>, <<"connecting", "connected">>,
     <<"connected", "disconnected">>, <<"connecting", "backoff">>,
     <<"backoff", "connecting">>}

\* C22: every target starts DISCONNECTED and every change of its connection
\* state is DISCONNECTED to CONNECTING, CONNECTING to CONNECTED, CONNECTED to
\* DISCONNECTED, CONNECTING to BACKOFF, or BACKOFF to CONNECTING once the
\* expiry time has passed, the changes made by the client's connect,
\* disconnect and connect_error handlers included.
C22_StateMachine ==
    /\ \A t \in TIdx : targets[t].state = "disconnected"
    /\ [][\A t \in TIdx :
            targets'[t].state # targets[t].state
            => /\ <<targets[t].state, targets'[t].state>> \in C22_Allowed
               /\ targets[t].state = "backoff"
                    => now >= targets[t].backoff_until_ms]_vars

\* the entries of s are pairwise distinct
NoRepeat(s) == \A i, j \in 1 .. Len(s) : i # j => s[i] # s[j]

\* C23: a step in which failed changes is the worker's emit of the entry it
\* dequeued: failed grows by exactly one, sent, the pending-ack table and the
\* queue are unchanged, the worker is back at the top of its loop without the
\* entry, and afterwards the frame is in no queue and was handed to sio.emit
\* once.
C23_SendFailureAbandons ==
    [][\A t \in TIdx :
        targets'[t].failed # targets[t].failed
        => /\ targets'[t].failed = targets[t].failed + 1
           /\ targets'[t].sent = targets[t].sent
           /\ targets'[t].pending_acks = targets[t].pending_acks
           /\ targets'[t].queue = targets[t].queue
           /\ targets'[t].dropped = targets[t].dropped
           /\ NoRepeat(hist'[t].emitted)
           /\ \E w \in WIdx :
                LET f == workers[t][w].item.f IN
                /\ workers[t][w].pc = "got"
                /\ workers'[t][w].pc = "top"
                /\ workers'[t][w].item = NoEntry
                /\ hist'[t].emitted = Append(hist[t].emitted, f.n)
                /\ \A i \in 1 .. Len(targets'[t].queue) :
                        targets'[t].queue[i].f.n # f.n
                /\ \A p \in targets'[t].pending_acks : p.id # f.fid]_vars

\* C23 witness: of two sampled frames one failed and the other was sent: one
\* pending entry, nothing left in the queue
C23_Witness ==
    \E t \in TIdx :
        /\ targets[t].failed = 1
        /\ targets[t].sent = 1
        /\ Len(hist[t].emitted) = 2
        /\ Cardinality(targets[t].pending_acks) = 1
        /\ targets[t].queue = <<>>
        /\ targets[t].last_error = "timeout"

\* C24: with the kill switch off, what a step of send() on an enabled target
\* does is decided by the queue alone, whatever the connection state: the
\* first insertion appends the frame and returns True when there is room and
\* goes on to evict otherwise, the second appends and returns True or counts
\* the frame as dropped; no step of send() changes a connection state or a
\* client, and every send() returns a boolean.
C24_SendIgnoresConnection ==
    [][\A c \in CIdx :
        LET t == caller[c].i
            q == targets[t].queue
            e == [f |-> caller[c].frame, queued_at |-> now]
            room == Len(q) < MAX_QUEUE_SIZE IN
        (~kill_switch_active /\ caller'[c] # caller[c]) =>
            /\ sio' = sio
            /\ \A u \in TIdx : targets'[u].state = targets[u].state
            /\ send_ret' \in {NoRet, Ret(TRUE), Ret(FALSE)}
            /\ (caller[c].pc \in {"put", "retry"} /\ targets[t].enabled /\ room)
                => /\ targets'[t].queue = Append(q, e)
                   /\ hist'[t].results = Append(hist[t].results, TRUE)
                   /\ caller'[c].acc = caller[c].acc \cup {t}
            /\ (caller[c].pc = "put" /\ targets[t].enabled /\ ~room)
                => /\ caller'[c].pc = "evict"
                   /\ targets'[t] = targets[t]
            /\ (caller[c].pc = "retry" /\ targets[t].enabled /\ ~room)
                => /\ caller'[c].pc = "rejected"
                   /\ targets'[t] = targets[t]
            /\ (SendReturns(c) /\ mode = "single")
                => send_ret' = Ret(caller'[c].acc # {})]_vars

\* C24 witness: a send() has returned True and evicted on a target in BACKOFF
\* that never connected
C24_Witness ==
    \E t \in TIdx :
        /\ targets[t].state = "backoff"
        /\ send_ret = Ret(TRUE)
        /\ \A c \in CIdx : caller[c].pc = "idle"
        /\ Len(targets[t].queue) = MAX_QUEUE_SIZE
        /\ targets[t].dropped > 0
        /\ ~hist[t].dequeued
        /\ targets[t].last_error # None

\* C25: the eviction step of an enqueue removes an entry only if the queue is
\* at capacity at that moment, and then exactly one, the oldest; the count of
\* the eviction adds one to dropped; also when the worker dequeued between the
\* failed insertion and the eviction.
C25_EvictOnlyWhenFull ==
    [][\A c \in CIdx :
        LET t == caller[c].i IN
        /\ (caller[c].pc = "evict" /\ caller'[c].pc # "evict")
            => IF Len(targets[t].queue) = MAX_QUEUE_SIZE
               THEN targets'[t].queue = Tail(targets[t].queue)
               ELSE targets'[t].queue = targets[t].queue
        /\ (caller[c].pc = "evicted" /\ caller'[c].pc # "evicted")
            => targets'[t].dropped = targets[t].dropped + 1]_vars

\* the live workers of target t after the step
C26_AliveAfter(t) == {w \in WIdx : workers'[t][w].pc # "dead"}

\* C26: with the kill switch off, a worker is created only for an enabled
\* target that is not running, one at a time; a start() leaves every enabled
\* target running with a live worker and every disabled target without one;
\* a start() while the targets are running creates no worker.
C26_StartEnabledOnly ==
    [][~kill_switch_active =>
        /\ \A t \in TIdx :
            /\ Cardinality(C26_AliveAfter(t)) > Cardinality(alive(t))
                => /\ targets[t].enabled
                   /\ ~targets[t].running
                   /\ targets'[t].running
                   /\ Cardinality(C26_AliveAfter(t)) = Cardinality(alive(t)) + 1
            /\ ~targets[t].enabled
                => /\ ~targets'[t].running
                   /\ C26_AliveAfter(t) = {}
        /\ (start_called' # start_called
             \/ \E t \in TIdx : ~targets[t].running /\ targets'[t].running)
            => \A t \in TIdx : targets[t].enabled
                    => /\ targets'[t].running
                       /\ C26_AliveAfter(t) # {}]_vars

\* C26 witness: of two targets the enabled one runs with exactly one worker,
\* connected, and the disabled one has none
C26_Witness ==
    /\ ~kill_switch_active
    /\ start_called
    /\ NumTargets = 2
    /\ ~targets[0].enabled /\ ~targets[0].running /\ alive(0) = {}
    /\ targets[1].enabled /\ targets[1].running /\ Cardinality(alive(1)) = 1
    /\ targets[1].state = "connected"

\* the client of target t becomes connected in this step
C27_Connects(t) == ~sio[t].connected /\ sio'[t].connected

\* C27: a set_session_id(id) leaves the manager and every target, enabled or
\* not, holding id, and no other step changes a session id; a step in which a
\* client becomes connected sends a registration carrying the id the target
\* holds, or none when it holds no id (None or empty); no other step sends one.
C27_SessionIdRegistered ==
    [][/\ \A t \in TIdx : targets'[t].session_id = session_id'
       /\ session_id' # session_id => session_id' \in SessionIdsAll
       /\ \A t \in TIdx :
            IF C27_Connects(t)
            THEN /\ targets'[t].session_id = targets[t].session_id
                 /\ hist'[t].registered =
                        IF targets[t].session_id \in {None, ""}
                        THEN None ELSE targets[t].session_id
            ELSE hist'[t].registered = hist[t].registered]_vars

\* C27 witness: after set_session_id("s2") a disabled target holds "s2" and an
\* enabled one has connected and registered "s2"
C27_Witness ==
    /\ NumTargets = 2
    /\ session_id = "s2"
    /\ ~targets[0].enabled /\ targets[0].session_id = "s2"
    /\ targets[1].enabled /\ targets[1].session_id = "s2"
    /\ sio[1].connected
    /\ hist[1].registered = "s2"

\* the latency samples recorded by the handler of target t, in arrival order
RECURSIVE C28_SamplesOf(_, _)
C28_SamplesOf(arr, t) ==
    IF arr = <<>> THEN <<>>
    ELSE IF Head(arr).t = t
         THEN <<Head(arr).latency>> \o C28_SamplesOf(Tail(arr), t)
         ELSE C28_SamplesOf(Tail(arr), t)

\* all latency samples, in arrival order
C28_Samples == [i \in 1 .. Len(ack_arrivals) |-> ack_arrivals[i].latency]

\* the last k entries of s
C28_Latest(s, k) ==
    IF Len(s) <= k THEN s ELSE [i \in 1 .. k |-> s[Len(s) - k + i]]

\* C28: once the acknowledgements in progress are completed (no handler is
\* between the append and the trim of the manager's window), every target's
\* window holds at most AckWindow samples, the latest its handler recorded, in
\* arrival order, and the manager's window at most TotalAckWindow, the latest
\* of all targets, in arrival order, also after handlers of several targets
\* ran concurrently.
C28_WindowsRecent ==
    /\ \A t \in TIdx :
        /\ Len(targets[t].ack_latencies) <= AckWindow
        /\ targets[t].ack_latencies = C28_Latest(C28_SamplesOf(ack_arrivals, t), AckWindow)
    /\ (\A t \in TIdx : ack_pc[t] = "idle")
        => /\ Len(total_ack_latencies) <= TotalAckWindow
           /\ total_ack_latencies = C28_Latest(C28_Samples, TotalAckWindow)

\* C29: in every state, a second stop() right after a stop() changes no target
\* and no client, and a stop() before any start() changes nothing at all.
C29_StopIdempotent ==
    LET once == stopped_targets(targets, sio)
        s1 == stopped_sio(sio) IN
    /\ stopped_targets(once, s1) = once
    /\ stopped_sio(s1) = s1
    /\ ~start_called => (once = targets /\ s1 = sio)

\* C29 witness: stop() has been called on a started target whose client had
\* connected, and the worker has not left its loop yet
C29_Witness ==
    /\ start_called
    /\ \E t \in TIdx : /\ targets[t].enabled
                        /\ ~targets[t].running
                        /\ alive(t) # {}
                        /\ hist[t].attempted
                        /\ targets[t].state = "disconnected"
                        /\ ~sio[t].connected

\* C30: every frameId in a target's pending-ack table is that of a sampled
\* frame the worker handed to sio.emit with success, and no acknowledgement
\* has matched it since; a step that adds an entry is the worker's step after
\* a successful emit of a frame carrying ackRequested and that frameId (never
\* a drop, a failed emit or the emit of an unsampled frame).
C30_PendingOnlySent ==
    [][\A t \in TIdx :
        /\ \A p \in targets'[t].pending_acks :
            /\ p.id # <<>>
            /\ p.id \in hist'[t].sent_ok
            /\ p.id \notin hist'[t].matched
        /\ \A p \in targets'[t].pending_acks \ targets[t].pending_acks :
            \E w \in WIdx :
                /\ workers[t][w].pc = "emitted"
                /\ workers'[t][w].pc = "top"
                /\ workers[t][w].item.f.ack
                /\ workers[t][w].item.f.fid = p.id
                /\ targets'[t].sent = targets[t].sent + 1
                /\ targets'[t].failed = targets[t].failed
                /\ targets'[t].dropped = targets[t].dropped]_vars

\* C30 witness: of three frames one was sampled, sent and is pending, one was
\* sent unsampled and one failed or was dropped: the table holds one entry
C30_Witness ==
    \E t \in TIdx :
        /\ Len(hist[t].results) = 3
        /\ targets[t].sent = 2
        /\ targets[t].failed + targets[t].dropped = 1
        /\ Cardinality(targets[t].pending_acks) = 1
        /\ Cardinality(hist[t].sent_ok) = 1
        /\ hist[t].matched = {}
        /\ targets[t].queue = <<>>
        /\ \A w \in WIdx : workers[t][w].pc \notin {"got", "emitted", "drop"}

\* C31: no step of a send() changes the mapping the caller passed; the frame
\* of an unsampled send carries that mapping as it is, the frame of a sampled
\* one a mapping with the caller's keys and values plus ackRequested and the
\* frameId; from its first enqueue on a send() keeps its frame, and every
\* entry it puts into a queue carries that frame, so that in parallel mode
\* every enabled target gets the same frameId.
C31_PayloadUntouched ==
    [][\A c \in CIdx :
        LET t == caller[c].i
            d == caller[c].arg
            f == caller'[c].frame
            q == targets'[t].queue IN
        /\ caller[c].pc # "idle" => caller'[c].arg = d
        /\ (caller[c].pc = "count" /\ caller'[c] # caller[c])
            => /\ d \in Payloads
               /\ caller'[c].pc # "idle" => (~f.ack /\ f.data = d)
        /\ (caller[c].pc = "stamp" /\ caller'[c].pc = "put")
            => /\ f.ack /\ f.fid # <<>>
               /\ DOMAIN f.data = DOMAIN d \cup {"ackRequested", "frameId"}
               /\ \A k \in DOMAIN d : f.data[k] = d[k]
               /\ f.data["ackRequested"] = TRUE
               /\ f.data["frameId"] = f.fid
        /\ (caller[c].pc \in {"put", "evict", "evicted", "retry", "rejected"}
             /\ caller'[c].pc # "idle")
            => f = caller[c].frame
        /\ (caller[c].pc \in {"put", "retry"} /\ targets'[t].queue # targets[t].queue)
            => /\ q # <<>>
               /\ q[Len(q)].f = caller[c].frame]_vars

\* C31 witness: a parallel send() of the two-key mapping has returned after
\* both targets took its sampled frame: both queues hold the same frameId and
\* the caller's mapping still has its two keys and values
C31_Witness ==
    /\ mode = "parallel"
    /\ \E c \in CIdx :
        /\ caller[c].pc = "idle"
        /\ caller[c].arg = [speed |-> 2, gear |-> 3]
        /\ caller[c].acc = {0, 1}
        /\ \E i \in 1 .. Len(targets[0].queue), j \in 1 .. Len(targets[1].queue) :
            LET f == targets[0].queue[i].f IN
            /\ f.ack
            /\ f = targets[1].queue[j].f
            /\ f.data = [speed |-> 2, gear |-> 3, ackRequested |-> TRUE,
                          frameId |-> f.fid]

\* the texts of ErrorTextsAll that contain token, key, secret, password or
\* auth in upper or lower case
C32_Sensitive == {"invalid token", "Bad Token", "monkey"}

\* C32: the last_error a get_stats() returns is never a text that contains a
\* sensitive word; it is the placeholder whenever the text the call reads
\* contains one, and None when no error was recorded; the same holds of a
\* get_stats() that runs without interruption, in every state.
C32_NoSensitiveError ==
    [][/\ error_call'.ret # NoRet => error_call'.ret[1] \notin C32_Sensitive
       /\ (error_call.pc = "idle" /\ error_call' # error_call
            /\ targets[error_call'.t].last_error = None)
           => error_call'.ret = Ret(None)
       /\ (error_call.pc = "copy" /\ error_call'.pc = "idle"
            /\ targets[error_call.t].last_error \in C32_Sensitive)
           => error_call'.ret = Ret("[error contains sensitive info]")
       /\ \A t \in TIdx :
            LET stored == targets'[t].last_error
                r == get_stats(targets'[t]).last_error IN
            /\ r \notin C32_Sensitive
            /\ stored \in C32_Sensitive => r = "[error contains sensitive info]"
            /\ stored = None => r = None]_vars

\* C32 witness: after two failures a get_stats() has returned the placeholder
\* for a stored text with the word in mixed case
C32_Witness ==
    /\ error_call.pc = "idle"
    /\ error_call.ret = Ret("[error contains sensitive info]")
    /\ targets[error_call.t].last_error = "Bad Token"
    /\ targets[error_call.t].backoff_count = 2

\* C33: in every reachable state every target has at most one worker thread
\* that has not left its loop, after any sequence of start() and stop().
C33_OneWorker ==
    \A t \in TIdx : Cardinality(alive(t)) <= 1

\* no send() is in progress and no worker holds a dequeued entry
C34_Quiescent ==
    /\ \A c \in CIdx : caller[c].pc = "idle"
    /\ \A t \in TIdx, w \in WIdx : workers[t][w].pc \notin {"got", "emitted", "drop"}

\* C34: in every quiescent state, for every enabled target, the number of
\* enqueue calls made on it equals sent + failed + dropped + the length of
\* its queue.
C34_FramesConserved ==
    C34_Quiescent =>
        \A t \in TIdx :
            targets[t].enabled =>
                Len(hist[t].submitted) = targets[t].sent + targets[t].failed
                                         + targets[t].dropped + Len(targets[t].queue)

\* C35: every acknowledgement delivered for a sampled frame the target has
\* sent was matched, also when it arrived right after the emit, and no
\* pending-ack entry is left for a frameId whose acknowledgement has already
\* been delivered.
C35_AckNeverLost ==
    \A t \in TIdx :
        /\ \A i \in 1 .. Len(hist[t].acks) :
            hist[t].acks[i] \in hist[t].sent_ok => hist[t].acks[i] \in hist[t].matched
        /\ \A p \in targets[t].pending_acks : ~Occurs(hist[t].acks, p.id)

\* C36: in every reachable state, for every target, acked <= sent, and acked
\* plus the number of pending-ack entries is at most the number of sampled
\* frames the target has sent.
C36_AckedWithinSent ==
    \A t \in TIdx :
        /\ targets[t].acked <= targets[t].sent
        /\ targets[t].acked + Cardinality(targets[t].pending_acks)
                <= Cardinality(hist[t].sent_ok)

\* worker w of target t takes the oldest entry out of the queue in this step
C37_Dequeues(t, w) ==
    /\ workers[t][w].pc = "get"
    /\ workers'[t][w].pc = "got"
    /\ targets[t].queue # <<>>
    /\ targets'[t].queue = Tail(targets[t].queue)

\* C37 as stated: in a step before and after which the target is in
\* DISCONNECTED, CONNECTING or BACKOFF no worker dequeues, nothing is handed
\* to sio.emit, sent and failed are unchanged, and the queue changes only in
\* a step of enqueue.
C37_NoDequeueUnconnected ==
    [][\A t \in TIdx :
        (targets[t].state # "connected" /\ targets'[t].state # "connected")
        => /\ \A w \in WIdx : ~C37_Dequeues(t, w)
           /\ hist'[t].emitted = hist[t].emitted
           /\ targets'[t].sent = targets[t].sent
           /\ targets'[t].failed = targets[t].failed
           /\ targets'[t].queue # targets[t].queue
                => \E c \in CIdx : caller'[c] # caller[c]]_vars

\* C37 amended: a worker gets to the queue only from the test at the top of
\* its loop with the target CONNECTED or from a connect() that returns True;
\* an iteration that finds the target in another state leaves the queue and
\* the counters alone and ends in the sleep, in sio.connect or with the exit;
\* the queue changes only in a dequeue of a worker that got to it that way or
\* in a step of enqueue, and a frame is emitted, sent or counted as failed
\* only by the worker that dequeued it.
C37_DequeueAfterConnected ==
    [][\A t \in TIdx :
        /\ \A w \in WIdx :
            /\ (workers[t][w].pc # "get" /\ workers'[t][w].pc = "get")
                => \/ /\ workers[t][w].pc = "top"
                       /\ targets[t].state = "connected"
                    \/ /\ workers[t][w].pc = "returning"
                       /\ sio[t].connected
            /\ (workers[t][w].pc = "top" /\ workers'[t][w].pc # "top"
                 /\ targets[t].state # "connected")
                => /\ workers'[t][w].pc \in {"dead", "sleep", "connecting"}
                   /\ targets'[t].queue = targets[t].queue
                   /\ hist'[t].emitted = hist[t].emitted
                   /\ targets'[t].sent = targets[t].sent
                   /\ targets'[t].failed = targets[t].failed
        /\ targets'[t].queue # targets[t].queue
            => \/ \E w \in WIdx : C37_Dequeues(t, w)
               \/ \E c \in CIdx : caller'[c] # caller[c]
        /\ (\/ hist'[t].emitted # hist[t].emitted
            \/ targets'[t].sent # targets[t].sent
            \/ targets'[t].failed # targets[t].failed)
            => \E w \in WIdx : /\ workers[t][w].pc = "got"
                                /\ workers'[t][w].pc = "top"]_vars

\* C37 witness: a worker that had found the target CONNECTED holds a frame it
\* dequeued after the link dropped, and the target is DISCONNECTED
C37_Witness ==
    \E t \in TIdx, w \in WIdx :
        /\ workers[t][w].pc = "got"
        /\ workers[t][w].item # NoEntry
        /\ targets[t].state = "disconnected"
        /\ sio[t].reconnecting
        /\ hist[t].emitted = <<>>

\* C38: while the endpoint accepts every connection attempt, a running
\* target that is in DISCONNECTED, CONNECTING or BACKOFF eventually is
\* CONNECTED. The target is taken at an instant that leaves the clock room
\* for the longest backoff delay, MAX_BACKOFF_MS, to expire.
C38_EventuallyConnected ==
    \A t \in 0 .. MaxTargets - 1 :
        (/\ t \in TIdx
         /\ targets[t].running
         /\ targets[t].state # "connected"
         /\ now + MAX_BACKOFF_MS <= MaxTimeLive)
            ~> (t \in TIdx /\ targets[t].state = "connected")

\* frame n is an entry of the queue of target t
C39_Queued(t, n) ==
    \E i \in 1 .. Len(targets[t].queue) : targets[t].queue[i].f.n = n

\* frames handed to enqueue of target t that are neither queued nor counted
\* yet: the call is before its put_nowait
C39_Entering(t) ==
    Cardinality({c \in CIdx : caller[c].i = t /\ caller[c].pc \in {"put", "evict", "retry"}})

\* no thread holds a frame it took from the queue of target t and has not
\* counted, and every frame handed to enqueue that is not in the queue is
\* counted once in sent, failed or dropped
C39_Counted(t) ==
    /\ \A w \in WIdx : workers[t][w].pc \notin {"got", "drop"}
    /\ \A c \in CIdx : ~(caller[c].i = t /\ caller[c].pc = "evicted")
    /\ Len(hist[t].submitted)
           = targets[t].sent + targets[t].failed + targets[t].dropped
             + Len(targets[t].queue) + C39_Entering(t)

\* C39: a frame in the queue of a running, connected target eventually has
\* left the queue, and the frames that left are counted once each.
C39_FrameLeavesCounted ==
    \A t \in 0 .. MaxTargets - 1, n \in 1 .. MaxFramesDrain :
        (/\ t \in TIdx
         /\ targets[t].running
         /\ targets[t].state = "connected"
         /\ C39_Queued(t, n))
            ~> (t \in TIdx /\ ~C39_Queued(t, n) /\ C39_Counted(t))
====
